---- MODULE Spec2Model ----
(***************************************************************************)
(* overthrower: a preloaded allocator shim that fails malloc/realloc       *)
(* according to a strategy and keeps a registry of live blocks.            *)
(*                                                                         *)
(* The model follows the newest revision of overthrower.cpp (the Linux     *)
(* build with libunwind).  Every interposed entry point and every control  *)
(* function is an operator from a program state (a record S holding the    *)
(* globals, the per-thread State and errno, the registry and the native    *)
(* heap) to the state after the call and the returned value; the actions   *)
(* apply one whole call to the variables.                                  *)
(***************************************************************************)
EXTENDS Integers, Sequences, FiniteSets, TLC

\* ------------------------------------------------------------------------
\* Program constants
\* ------------------------------------------------------------------------
MAX_STACK_DEPTH ==
    7
MAX_PAUSE_DEPTH ==
    16
STRATEGY_RANDOM ==
    0
STRATEGY_STEP ==
    1
STRATEGY_PULSE ==
    2
STRATEGY_NONE ==
    3
MIN_DUTY_CYCLE ==
    1
MAX_DUTY_CYCLE ==
    4096
MIN_DELAY ==
    0
MAX_RANDOM_DELAY ==
    1000
MAX_DELAY ==
    1000000
MIN_DURATION ==
    1
MAX_DURATION ==
    100
VERBOSE_NO ==
    0
VERBOSE_FAILED_ALLOCATIONS ==
    1
VERBOSE_ALL_ALLOCATIONS ==
    2
\* unsigned int is kept at 31 bits, the widest TLC's integers hold; every
\* increment and decrement below wraps at this width.
UINT_MAX ==
    2147483647
ENOMEM ==
    12
ERANGE ==
    34
NULL ==
    0

\* ------------------------------------------------------------------------
\* Bounds of the model
\* ------------------------------------------------------------------------
MaxPtrs ==
    2
MaxSize ==
    1
MaxCounter ==
    3
MaxDelay ==
    2
MaxDuration ==
    2
MaxPauseArg ==
    2
MaxPauseLevels ==
    2
MaxIndefinite ==
    2
MaxOverflow ==
    2

Threads ==
    {1, 2}
Ptrs ==
    1..MaxPtrs
\* An address beyond those the registry is modelled for: the native
\* realloc moves a block there when the others are in use.
SparePtr ==
    MaxPtrs + 2
\* The address the native allocator hands to the stack walker's own
\* allocations; the walker releases it before the walk returns.
WalkerPtr ==
    MaxPtrs + 1
Sizes ==
    0..MaxSize
ErrnoValues ==
    {0, ENOMEM, 100500}
\* Values rand() can return: one of each parity.
Rands ==
    {0, 1}

\* Environment variables: a decimal number, or one of these.
Unset ==
    -1
NotANumber ==
    -2
\* "123456789012345678901234567890": strtoul reports ERANGE.
TooBig ==
    -3

VARIABLES
    g_activated, g_self_overthrow, g_verbose_mode, g_strategy, g_seed,
    g_duty_cycle, g_delay, g_duration, g_malloc_counter, g_state,
    g_initialized, g_allocated, errno, heap,
    last, tracked, since, pauses, watch, frame

progvars ==
    <<g_activated, g_self_overthrow, g_verbose_mode, g_strategy, g_seed,
      g_duty_cycle, g_delay, g_duration, g_malloc_counter, g_state,
      g_initialized, g_allocated, errno, heap>>
vars ==
    <<progvars, last, tracked, since, pauses, watch, frame>>

\* struct Info; NoEntry marks a pointer that is not a key of g_allocated.
NoEntry ==
    [seq_num |-> -1, size |-> 0]
Info(seq_num, size) ==
    [seq_num |-> seq_num, size |-> size]

\* struct State, zero-initialised.
ZeroState ==
    [is_tracing |-> FALSE,
     paused |-> [i \in 0..MAX_PAUSE_DEPTH |-> 0],
     depth |-> 0]

\* The program state as one record.
Cur ==
    [g_activated |-> g_activated, g_self_overthrow |-> g_self_overthrow,
     g_verbose_mode |-> g_verbose_mode, g_strategy |-> g_strategy,
     g_seed |-> g_seed, g_duty_cycle |-> g_duty_cycle, g_delay |-> g_delay,
     g_duration |-> g_duration, g_malloc_counter |-> g_malloc_counter,
     g_state |-> g_state, g_initialized |-> g_initialized,
     g_allocated |-> g_allocated, errno |-> errno, heap |-> heap]

Commit(S) ==
    /\ g_activated' = S.g_activated
    /\ g_self_overthrow' = S.g_self_overthrow
    /\ g_verbose_mode' = S.g_verbose_mode
    /\ g_strategy' = S.g_strategy
    /\ g_seed' = S.g_seed
    /\ g_duty_cycle' = S.g_duty_cycle
    /\ g_delay' = S.g_delay
    /\ g_duration' = S.g_duration
    /\ g_malloc_counter' = S.g_malloc_counter
    /\ g_state' = S.g_state
    /\ g_initialized' = S.g_initialized
    /\ g_allocated' = S.g_allocated
    /\ errno' = S.errno
    /\ heap' = S.heap

\* The state the library is loaded in: the static initialisers.
LoadState ==
    [g_activated |-> FALSE, g_self_overthrow |-> FALSE,
     g_verbose_mode |-> VERBOSE_NO, g_strategy |-> STRATEGY_RANDOM,
     g_seed |-> 0, g_duty_cycle |-> 1024, g_delay |-> MIN_DELAY,
     g_duration |-> MIN_DURATION, g_malloc_counter |-> 0,
     g_state |-> [t \in Threads |-> ZeroState],
     g_initialized |-> FALSE,
     g_allocated |-> [p \in Ptrs |-> NoEntry],
     errno |-> [t \in Threads |-> 0], heap |-> {}]

\* ------------------------------------------------------------------------
\* The native allocator (the next malloc/realloc/free in the preload chain)
\* ------------------------------------------------------------------------
\* nat is what it answers: a free address, or NULL with errno = ENOMEM.
native_malloc(S, t, nat) ==
    IF nat = NULL
    THEN [S |-> [S EXCEPT !.errno[t] = ENOMEM], ret |-> NULL]
    ELSE [S |-> [S EXCEPT !.heap = @ \cup {nat}], ret |-> nat]

native_free(S, pointer) ==
    [S EXCEPT !.heap = @ \ {pointer}]

\* nat is the old address (resized in place), a free address (the block
\* moved), or NULL with errno = ENOMEM and the old block left as it was.
native_realloc(S, t, pointer, nat) ==
    IF nat = NULL
    THEN [S |-> [S EXCEPT !.errno[t] = ENOMEM], ret |-> NULL]
    ELSE [S |-> [S EXCEPT !.heap = (@ \ {pointer}) \cup {nat}], ret |-> nat]

\* ------------------------------------------------------------------------
\* initialize, and the configuration reader
\* ------------------------------------------------------------------------
initialize(S) ==
    [S EXCEPT !.g_initialized = TRUE]

\* str is the variable's text: a decimal number, NotANumber or TooBig.
strToUnsignedLongInt(str) ==
    IF str = NotANumber THEN [rc |-> -1, value |-> 0, errno |-> 0]
    ELSE IF str = TooBig THEN [rc |-> -1, value |-> UINT_MAX, errno |-> ERANGE]
    ELSE [rc |-> 0, value |-> str, errno |-> 0]

\* A random value not reduced to the range.
generateRandomValue_NoRange(min_val, max_val, u) ==
    LET value == IF u = -1 THEN (min_val + max_val) \div 2 ELSE u
    IN  value

\* u is what is read from /dev/urandom, or -1 when that read fails.
generateRandomValue(min_val, max_val, u) ==
    LET value == IF u = -1 THEN (min_val + max_val) \div 2 ELSE u
    IN  (value % (max_val - min_val + (IF max_val = UINT_MAX THEN 0 ELSE 1)))
        + min_val

\* default_value = UINT_MAX stands for "no default": a random fallback.
readValFromEnvVar(env_var_val, min_val, max_val, max_random_val, default_value, u) ==
    LET parsed == strToUnsignedLongInt(env_var_val)
        bad == parsed.rc # 0 \/ parsed.value < min_val \/ parsed.value > max_val
        random_value == generateRandomValue(
            min_val, IF max_random_val # 0 THEN max_random_val ELSE max_val, u)
    IN  IF default_value # UINT_MAX
        THEN IF env_var_val = Unset THEN default_value
             ELSE IF bad THEN default_value ELSE parsed.value
        ELSE IF env_var_val = Unset THEN random_value
             ELSE IF bad THEN random_value ELSE parsed.value

\* errno after readValFromEnvVar: strToUnsignedLongInt clears it whenever
\* the variable is set, and strtoul sets ERANGE on overflow.
errnoAfterRead(e, env_var_val) ==
    IF env_var_val = Unset THEN e
    ELSE strToUnsignedLongInt(env_var_val).errno

\* ------------------------------------------------------------------------
\* The control API
\* ------------------------------------------------------------------------
\* An activation that leaves the sequence counter where it was.
activateOverthrower_KeepsCounter(S, t, env, u) ==
    LET strategy == readValFromEnvVar(env.strategy, STRATEGY_RANDOM,
                        STRATEGY_NONE, STRATEGY_PULSE, UINT_MAX, u.strategy)
        isRandom == strategy = STRATEGY_RANDOM
        hasDelay == ~isRandom /\ strategy # STRATEGY_NONE
        isPulse == hasDelay /\ strategy = STRATEGY_PULSE
    IN  [S EXCEPT
          !.g_strategy = strategy,
          !.g_seed = IF isRandom
                     THEN readValFromEnvVar(env.seed, 0, UINT_MAX, 0, UINT_MAX, u.seed)
                     ELSE @,
          !.g_duty_cycle = IF isRandom
                     THEN readValFromEnvVar(env.duty_cycle, MIN_DUTY_CYCLE,
                              MAX_DUTY_CYCLE, 0, UINT_MAX, u.duty_cycle)
                     ELSE @,
          !.g_delay = IF hasDelay
                     THEN readValFromEnvVar(env.delay, MIN_DELAY, MAX_DELAY,
                              MAX_RANDOM_DELAY, UINT_MAX, u.delay)
                     ELSE @,
          !.g_duration = IF isPulse
                     THEN readValFromEnvVar(env.duration, MIN_DURATION,
                              MAX_DURATION, 0, UINT_MAX, u.duration)
                     ELSE @,
          !.g_self_overthrow = env.self_overthrow,
          !.g_verbose_mode = readValFromEnvVar(env.verbose, VERBOSE_NO,
                              VERBOSE_ALL_ALLOCATIONS, 0, VERBOSE_NO, -1),
          !.g_activated = TRUE]

\* An activation that zeroes the calling thread's State.
activateOverthrower_ClearsPause(S, t, env, u) ==
    [activateOverthrower_KeepsCounter(S, t, env, u) EXCEPT
        !.g_malloc_counter = 0,
        !.g_state[t] = ZeroState]

\* An activation that starts with an empty registry.
activateOverthrower_ClearsRegistry(S, t, env, u) ==
    LET strategy == readValFromEnvVar(env.strategy, STRATEGY_RANDOM,
                        STRATEGY_NONE, STRATEGY_PULSE, UINT_MAX, u.strategy)
        e1 == errnoAfterRead(S.errno[t], env.strategy)
        isRandom == strategy = STRATEGY_RANDOM
        hasDelay == ~isRandom /\ strategy # STRATEGY_NONE
        isPulse == hasDelay /\ strategy = STRATEGY_PULSE
        e2 == IF isRandom
              THEN errnoAfterRead(errnoAfterRead(e1, env.seed), env.duty_cycle)
              ELSE IF isPulse
              THEN errnoAfterRead(errnoAfterRead(e1, env.delay), env.duration)
              ELSE IF hasDelay THEN errnoAfterRead(e1, env.delay)
              ELSE e1
    IN  [S EXCEPT
          !.g_malloc_counter = 0,
          !.g_strategy = strategy,
          !.g_seed = IF isRandom
                     THEN readValFromEnvVar(env.seed, 0, UINT_MAX, 0, UINT_MAX, u.seed)
                     ELSE @,
          !.g_duty_cycle = IF isRandom
                     THEN readValFromEnvVar(env.duty_cycle, MIN_DUTY_CYCLE,
                              MAX_DUTY_CYCLE, 0, UINT_MAX, u.duty_cycle)
                     ELSE @,
          !.g_delay = IF hasDelay
                     THEN readValFromEnvVar(env.delay, MIN_DELAY, MAX_DELAY,
                              MAX_RANDOM_DELAY, UINT_MAX, u.delay)
                     ELSE @,
          !.g_duration = IF isPulse
                     THEN readValFromEnvVar(env.duration, MIN_DURATION,
                              MAX_DURATION, 0, UINT_MAX, u.duration)
                     ELSE @,
          !.g_self_overthrow = env.self_overthrow,
          !.g_verbose_mode = readValFromEnvVar(env.verbose, VERBOSE_NO,
                              VERBOSE_ALL_ALLOCATIONS, 0, VERBOSE_NO, -1),
          !.errno[t] = errnoAfterRead(e2, env.verbose),
          !.g_allocated = [p \in Ptrs |-> NoEntry],
          !.g_activated = TRUE]

\* env holds the OVERTHROWER_* variables, u the /dev/urandom reads.
activateOverthrower(S, t, env, u) ==
    LET strategy == readValFromEnvVar(env.strategy, STRATEGY_RANDOM,
                        STRATEGY_NONE, STRATEGY_PULSE, UINT_MAX, u.strategy)
        e1 == errnoAfterRead(S.errno[t], env.strategy)
        isRandom == strategy = STRATEGY_RANDOM
        hasDelay == ~isRandom /\ strategy # STRATEGY_NONE
        isPulse == hasDelay /\ strategy = STRATEGY_PULSE
        e2 == IF isRandom
              THEN errnoAfterRead(errnoAfterRead(e1, env.seed), env.duty_cycle)
              ELSE IF isPulse
              THEN errnoAfterRead(errnoAfterRead(e1, env.delay), env.duration)
              ELSE IF hasDelay THEN errnoAfterRead(e1, env.delay)
              ELSE e1
    IN  [S EXCEPT
          !.g_malloc_counter = 0,
          !.g_strategy = strategy,
          !.g_seed = IF isRandom
                     THEN readValFromEnvVar(env.seed, 0, UINT_MAX, 0, UINT_MAX, u.seed)
                     ELSE @,
          !.g_duty_cycle = IF isRandom
                     THEN readValFromEnvVar(env.duty_cycle, MIN_DUTY_CYCLE,
                              MAX_DUTY_CYCLE, 0, UINT_MAX, u.duty_cycle)
                     ELSE @,
          !.g_delay = IF hasDelay
                     THEN readValFromEnvVar(env.delay, MIN_DELAY, MAX_DELAY,
                              MAX_RANDOM_DELAY, UINT_MAX, u.delay)
                     ELSE @,
          !.g_duration = IF isPulse
                     THEN readValFromEnvVar(env.duration, MIN_DURATION,
                              MAX_DURATION, 0, UINT_MAX, u.duration)
                     ELSE @,
          !.g_self_overthrow = env.self_overthrow,
          !.g_verbose_mode = readValFromEnvVar(env.verbose, VERBOSE_NO,
                              VERBOSE_ALL_ALLOCATIONS, 0, VERBOSE_NO, -1),
          !.errno[t] = errnoAfterRead(e2, env.verbose),
          !.g_activated = TRUE]

RegistryKeys(S) ==
    {p \in Ptrs : S.g_allocated[p] # NoEntry}

\* A deactivation that reports the registry without clearing it.
deactivateOverthrower_NoClear(S, t) ==
    LET blocks_leaked == Cardinality(RegistryKeys(S))
    IN  [S |-> [S EXCEPT !.g_self_overthrow = FALSE,
                         !.g_activated = FALSE,
                         !.g_state[t] = ZeroState],
         ret |-> blocks_leaked]

\* A deactivation that leaves the calling thread's State as it is.
deactivateOverthrower_KeepsPause(S, t) ==
    LET blocks_leaked == Cardinality(RegistryKeys(S))
    IN  [S |-> [S EXCEPT !.g_self_overthrow = FALSE,
                         !.g_activated = FALSE,
                         !.g_allocated = [p \in Ptrs |-> NoEntry]],
         ret |-> blocks_leaked]

deactivateOverthrower(S, t) ==
    LET blocks_leaked == Cardinality(RegistryKeys(S))
    IN  [S |-> [S EXCEPT !.g_self_overthrow = FALSE,
                         !.g_activated = FALSE,
                         !.g_state[t] = ZeroState,
                         !.g_allocated = [p \in Ptrs |-> NoEntry]],
         ret |-> blocks_leaked]

\* A pause kept in one State shared by all the threads.
pauseOverthrower_Shared(S, t, duration0) ==
    LET duration == IF duration0 = 0 THEN UINT_MAX ELSE duration0
    IN  [S EXCEPT !.g_state = [b \in Threads |->
            IF S.g_state[t].depth = MAX_PAUSE_DEPTH
            THEN [@[b] EXCEPT !.paused[MAX_PAUSE_DEPTH] = duration]
            ELSE [@[b] EXCEPT !.depth = S.g_state[t].depth + 1,
                              !.paused[S.g_state[t].depth + 1] = duration]]]

\* A pause that pushes a level whatever the depth is.
pauseOverthrower_NoOverflowTest(S, t, duration0) ==
    LET duration == IF duration0 = 0 THEN UINT_MAX ELSE duration0
    IN  [S EXCEPT !.g_state[t].depth = @ + 1,
                  !.g_state[t].paused =
                      [i \in DOMAIN @ |->
                          IF i = S.g_state[t].depth + 1 THEN duration ELSE @[i]]]

pauseOverthrower(S, t, duration0) ==
    LET duration == IF duration0 = 0 THEN UINT_MAX ELSE duration0
    IN  IF S.g_state[t].depth = MAX_PAUSE_DEPTH
        THEN [S EXCEPT !.g_state[t].paused[MAX_PAUSE_DEPTH] = duration]
        ELSE [S EXCEPT !.g_state[t].depth = @ + 1,
                       !.g_state[t].paused[S.g_state[t].depth + 1] = duration]

\* A resume that closes two levels at once.
resumeOverthrower_PopsTwo(S, t) ==
    IF S.g_state[t].depth = 0
    THEN S
    ELSE [S EXCEPT !.g_state[t].depth = IF @ = 1 THEN 0 ELSE @ - 2]

resumeOverthrower(S, t) ==
    IF S.g_state[t].depth = 0
    THEN S
    ELSE [S EXCEPT !.g_state[t].depth = @ - 1]

\* ------------------------------------------------------------------------
\* The strategy engine and the non-failing allocator
\* ------------------------------------------------------------------------
\* The step strategy starting one allocation late.
isTimeToFail_LateStep(S, malloc_seq_num, r) ==
    CASE S.g_strategy = STRATEGY_RANDOM -> r % S.g_duty_cycle = 0
      [] S.g_strategy = STRATEGY_STEP -> malloc_seq_num > S.g_delay
      [] S.g_strategy = STRATEGY_PULSE ->
            /\ malloc_seq_num > S.g_delay
            /\ malloc_seq_num <= S.g_delay + S.g_duration
      [] OTHER -> FALSE

\* The none strategy failing like the step strategy.
isTimeToFail_NoneFails(S, malloc_seq_num, r) ==
    CASE S.g_strategy = STRATEGY_RANDOM -> r % S.g_duty_cycle = 0
      [] S.g_strategy = STRATEGY_PULSE ->
            /\ malloc_seq_num > S.g_delay
            /\ malloc_seq_num <= S.g_delay + S.g_duration
      [] OTHER -> malloc_seq_num >= S.g_delay

\* The pulse strategy ending one allocation early.
isTimeToFail_ShortPulse(S, malloc_seq_num, r) ==
    CASE S.g_strategy = STRATEGY_RANDOM -> r % S.g_duty_cycle = 0
      [] S.g_strategy = STRATEGY_STEP -> malloc_seq_num >= S.g_delay
      [] S.g_strategy = STRATEGY_PULSE ->
            /\ malloc_seq_num > S.g_delay
            /\ malloc_seq_num < S.g_delay + S.g_duration
      [] OTHER -> FALSE

\* r is the value rand() returns (drawn only by the random strategy).
isTimeToFail(S, malloc_seq_num, r) ==
    CASE S.g_strategy = STRATEGY_RANDOM -> r % S.g_duty_cycle = 0
      [] S.g_strategy = STRATEGY_STEP -> malloc_seq_num >= S.g_delay
      [] S.g_strategy = STRATEGY_PULSE ->
            /\ malloc_seq_num > S.g_delay
            /\ malloc_seq_num <= S.g_delay + S.g_duration
      [] OTHER -> FALSE

\* r is the value rand() returns in self-overthrow mode.
nonFailingMalloc(S, t, r, nat) ==
    IF S.g_self_overthrow /\ r % 2 = 0
    THEN [S |-> S, ret |-> NULL]
    ELSE native_malloc(S, t, nat)

nonFailingFree(S, pointer) ==
    native_free(S, pointer)

\* mallocFreeAllocator::allocate for one registry node: TRUE when it throws
\* std::bad_alloc (nonFailingMalloc returned NULL).
allocateThrows(S, r, reg_ok) ==
    (S.g_self_overthrow /\ r % 2 = 0) \/ ~reg_ok

\* g_allocated.emplace: an existing key is left as it is.
emplace(m, pointer, info) ==
    IF pointer \in DOMAIN m /\ m[pointer] = NoEntry
    THEN [m EXCEPT ![pointer] = info]
    ELSE m

\* An erase that leaves the entry in place.
erase_Keeps(m, pointer) ==
    m

\* g_allocated.erase: a missing key is ignored.
erase(m, pointer) ==
    IF pointer \in DOMAIN m THEN [m EXCEPT ![pointer] = NoEntry] ELSE m

\* g_allocated.count
count(m, pointer) ==
    IF pointer \in DOMAIN m /\ m[pointer] # NoEntry THEN 1 ELSE 0

\* ------------------------------------------------------------------------
\* The knowledge base
\* ------------------------------------------------------------------------
checker(depth, func_name) ==
    IF (depth = 2 \/ depth = 3) /\ func_name = "__cxa_allocate_exception"
    THEN <<TRUE, FALSE>>
    ELSE IF func_name = "_dl_map_object" \/ func_name = "_dl_map_object_deps"
    THEN <<FALSE, TRUE>>
    ELSE IF depth = 5 /\ func_name = "_dl_catch_exception"
    THEN <<FALSE, TRUE>>
    ELSE IF depth = 2 /\ (func_name = "_dl_signal_error"
                          \/ func_name = "_dl_exception_create")
    THEN <<TRUE, TRUE>>
    ELSE IF (depth = 4 \/ depth = 5) /\ func_name = "dlerror"
    THEN <<FALSE, TRUE>>
    ELSE IF func_name = "__libpthread_freeres"
    THEN <<FALSE, TRUE>>
    ELSE <<FALSE, FALSE>>

printFrameInfo(depth, func_name) ==
    <<FALSE, FALSE>>

\* The loop of traverseStack over the frames above searchKnowledgeBase:
\* frames[1] is malloc itself, frames[2] its caller.  unw_fail is the frame
\* at which unw_get_proc_name reports an error (0: none).
RECURSIVE traverseFrames(_, _, _, _, _)
traverseFrames(frames, i, verbose_mode, callback, unw_fail) ==
    IF i > Len(frames) THEN <<FALSE, FALSE>>
    ELSE IF verbose_mode = VERBOSE_NO /\ i >= MAX_STACK_DEPTH
    THEN <<FALSE, FALSE>>
    ELSE IF unw_fail = i THEN <<TRUE, TRUE>>
    ELSE LET check_status == IF callback = "checker"
                             THEN checker(i, frames[i])
                             ELSE printFrameInfo(i, frames[i])
         IN  IF check_status[1] \/ check_status[2]
             THEN check_status
             ELSE traverseFrames(frames, i + 1, verbose_mode, callback, unw_fail)

\* ------------------------------------------------------------------------
\* The interposed entry points
\* ------------------------------------------------------------------------
NoClobber ==
    -1

\* A free that does not put errno back.
my_free_NoRestore(S, t, pointer, clob) ==
    IF pointer = NULL
    THEN S
    ELSE LET locked == [S EXCEPT
                          !.g_allocated = erase(@, pointer),
                          !.errno[t] = IF clob = NoClobber THEN @ ELSE clob]
             S1 == IF S.g_activated THEN locked ELSE S
         IN  native_free(S1, pointer)

\* A free that leaves the registry alone while the calling thread is within
\* a pause.
my_free_UnlessPaused(S, t, pointer, clob) ==
    IF pointer = NULL
    THEN S
    ELSE LET old_errno == S.errno[t]
             locked == [S EXCEPT
                          !.g_allocated =
                              IF S.g_state[t].paused[S.g_state[t].depth] # 0
                              THEN @ ELSE erase(@, pointer),
                          !.errno[t] = IF clob = NoClobber THEN @ ELSE clob]
             S1 == IF S.g_activated
                   THEN [locked EXCEPT !.errno[t] = old_errno]
                   ELSE S
         IN  native_free(S1, pointer)

\* clob is what taking the mutex and erasing leave in errno (NoClobber:
\* nothing); the native free keeps errno.
my_free(S, t, pointer, clob) ==
    IF pointer = NULL
    THEN S
    ELSE LET old_errno == S.errno[t]
             locked == [S EXCEPT
                          !.g_allocated = erase(@, pointer),
                          !.errno[t] = IF clob = NoClobber THEN @ ELSE clob]
             S1 == IF S.g_activated
                   THEN [locked EXCEPT !.errno[t] = old_errno]
                   ELSE S
         IN  native_free(S1, pointer)

\* The inputs of one my_malloc call that the program does not decide:
\*   walk     how many blocks the stack walker allocates and frees
\*   unw_fail the frame at which unw_get_proc_name fails (0: none)
\*   r_walk   rand() for the walker's nonFailingMalloc (self-overthrow)
\*   r_fail   rand() in isTimeToFail
\*   r_user   rand() in nonFailingMalloc for the caller's block
\*   native   the native allocator's answer for the caller's block
\*   r_reg    rand() in nonFailingMalloc for the registry node
\*   reg_ok   whether the native allocator has memory for the registry node
\*
\* walkerInputs: the inputs of the allocations the walker itself makes
\* (through the interposed malloc).
walkerInputs(nd) ==
    [walk |-> 0, unw_fail |-> 0, r_walk |-> 0, r_fail |-> 0,
     r_user |-> nd.r_walk, native |-> WalkerPtr, r_reg |-> 0, reg_ok |-> TRUE]

RECURSIVE my_malloc(_, _, _, _, _)

\* The malloc the walker makes (__cxa_demangle) through the interposed
\* entry point.
walkerMalloc(S, t, stack, nd) ==
    my_malloc(S, t, 1, stack, walkerInputs(nd))

\* One allocation made by the walker and released by it.
walkerAllocation(S, t, stack, nd) ==
    LET m == walkerMalloc(S, t, stack, nd)
    IN  my_free(m.S, t, m.ret, NoClobber)

\* A guard that does not force the pause counter.
guardWalk_NoPause(S, t, depth) ==
    [S EXCEPT !.g_state[t].is_tracing = TRUE]

\* g_state.is_tracing = true; g_state.paused[depth] = UINT_MAX
guardWalk(S, t, depth) ==
    [S EXCEPT !.g_state[t].is_tracing = TRUE,
              !.g_state[t].paused[depth] = UINT_MAX]

\* A walk whose white-list answer is lost.
guardedTraverseStack_NoWhite(S, t, depth, callback, stack, nd) ==
    LET old_paused == S.g_state[t].paused[depth]
        S1 == guardWalk(S, t, depth)
        S2 == IF nd.walk > 0 THEN walkerAllocation(S1, t, stack, nd) ELSE S1
        check_result == traverseFrames(<<"malloc">> \o stack, 1,
                            S.g_verbose_mode, callback, nd.unw_fail)
        S3 == [S2 EXCEPT !.g_state[t].paused[depth] = old_paused,
                         !.g_state[t].is_tracing = FALSE]
    IN  [S |-> S3, white |-> FALSE, ignore |-> check_result[2]]

\* traverseStack(callback) run under the reentrancy guard: is_tracing set
\* and the pause counter of the current depth forced to UINT_MAX for the
\* walk, both put back after it.
guardedTraverseStack(S, t, depth, callback, stack, nd) ==
    LET old_paused == S.g_state[t].paused[depth]
        S1 == guardWalk(S, t, depth)
        S2 == IF nd.walk > 0 THEN walkerAllocation(S1, t, stack, nd) ELSE S1
        check_result == traverseFrames(<<"malloc">> \o stack, 1,
                            S.g_verbose_mode, callback, nd.unw_fail)
        S3 == [S2 EXCEPT !.g_state[t].paused[depth] = old_paused,
                         !.g_state[t].is_tracing = FALSE]
    IN  [S |-> S3, white |-> check_result[1], ignore |-> check_result[2]]

\* A pause counter that is never counted down.
decrementPaused_Keeps(S, t, depth) ==
    S

\* A count-down of the enclosing level's counter.
decrementPaused_Enclosing(S, t, depth) ==
    [S EXCEPT !.g_state[t].paused[IF depth > 0 THEN depth - 1 ELSE 0] =
                 IF @ > 0 THEN @ - 1 ELSE 0]

\* --g_state.paused[depth]
decrementPaused(S, t, depth) ==
    [S EXCEPT !.g_state[t].paused[depth] = @ - 1]

\* A counter that is read and not written.
incrementCounter_Stuck(S) ==
    S

\* A counter that goes up by two.
incrementCounter_Twice(S) ==
    [S EXCEPT !.g_malloc_counter = IF @ >= UINT_MAX - 1 THEN 0 ELSE @ + 2]

\* g_malloc_counter++ (the value before it is the sequence number)
incrementCounter(S) ==
    [S EXCEPT !.g_malloc_counter = IF @ = UINT_MAX THEN 0 ELSE @ + 1]

\* A failed insertion that leaves the caller's block allocated.
registerBlock_Leaks(S, t, pointer, info, r, reg_ok) ==
    IF allocateThrows(S, r, reg_ok)
    THEN [S |-> [S EXCEPT !.errno[t] = ENOMEM], ret |-> NULL]
    ELSE [S |-> [S EXCEPT !.g_allocated = emplace(@, pointer, info)],
          ret |-> pointer]

\* An insertion that never throws.
registerBlock_Always(S, t, pointer, info, r, reg_ok) ==
    [S |-> [S EXCEPT !.g_allocated = emplace(@, pointer, info)],
     ret |-> pointer]

\* try { emplace } catch (bad_alloc) { nonFailingFree; errno = ENOMEM }
registerBlock(S, t, pointer, info, r, reg_ok) ==
    IF allocateThrows(S, r, reg_ok)
    THEN [S |-> [nonFailingFree(S, pointer) EXCEPT !.errno[t] = ENOMEM],
          ret |-> NULL]
    ELSE [S |-> [S EXCEPT !.g_allocated = emplace(@, pointer, info)],
          ret |-> pointer]

\* The walk my_malloc makes to classify its caller, unless the thread is
\* within a walk already: that call is white-listed.
searchKnowledgeBase(S1, t, stack, nd) ==
    IF ~S1.g_state[t].is_tracing
    THEN guardedTraverseStack(S1, t, S1.g_state[t].depth, "checker", stack, nd)
    ELSE [S |-> S1, white |-> TRUE, ignore |-> FALSE]

\* A my_malloc that takes its sequence number before it looks at the pause
\* counter.
my_malloc_count_CountsPaused(kb, t, nd, depth) ==
    IF kb.S.g_state[t].paused[depth] # 0
    THEN LET m == nonFailingMalloc(
                      incrementCounter(decrementPaused(kb.S, t, depth)), t,
                      nd.r_user, nd.native)
         IN  [S |-> m.S, done |-> TRUE, ret |-> m.ret, path |-> "paused",
              seq |-> -1, white |-> kb.white, ignore |-> kb.ignore,
              depth |-> depth]
    ELSE [S |-> incrementCounter(kb.S), done |-> FALSE, ret |-> NULL,
          path |-> "none", seq |-> kb.S.g_malloc_counter,
          white |-> kb.white, ignore |-> kb.ignore, depth |-> depth]

\* my_malloc from the classifier's answer kb to g_malloc_counter++: the
\* call is passed through by a pause, or takes its sequence number.
my_malloc_count(kb, t, nd, depth) ==
    IF kb.S.g_state[t].paused[depth] # 0
    THEN LET m == nonFailingMalloc(decrementPaused(kb.S, t, depth), t,
                                   nd.r_user, nd.native)
         IN  [S |-> m.S, done |-> TRUE, ret |-> m.ret, path |-> "paused",
              seq |-> -1, white |-> kb.white, ignore |-> kb.ignore,
              depth |-> depth]
    ELSE [S |-> incrementCounter(kb.S), done |-> FALSE, ret |-> NULL,
          path |-> "none", seq |-> kb.S.g_malloc_counter,
          white |-> kb.white, ignore |-> kb.ignore, depth |-> depth]

\* A my_malloc that does not look at g_activated.
my_malloc_enter_NoActiveTest(S0, t, stack, nd) ==
    LET S1 == IF ~S0.g_initialized THEN initialize(S0) ELSE S0
    IN  my_malloc_count(searchKnowledgeBase(S1, t, stack, nd), t, nd,
                        S1.g_state[t].depth)

\* my_malloc up to and including g_malloc_counter++.  done: the call has
\* returned (inactive, or passed through by a pause) with ret; otherwise
\* seq is the sequence number it fetched, white and ignore what the
\* classifier answered, depth the pause depth it read.
my_malloc_enter(S0, t, stack, nd) ==
    LET S1 == IF ~S0.g_initialized THEN initialize(S0) ELSE S0
    IN
    IF ~S1.g_activated
    THEN LET m == nonFailingMalloc(S1, t, nd.r_user, nd.native)
         IN  [S |-> m.S, done |-> TRUE, ret |-> m.ret, path |-> "inactive",
              seq |-> -1, white |-> FALSE, ignore |-> FALSE, depth |-> 0]
    ELSE my_malloc_count(searchKnowledgeBase(S1, t, stack, nd), t, nd,
                         S1.g_state[t].depth)

\* my_malloc from the registration of the caller's block to the return.
my_malloc_register(S, t, size, stack, nd, depth, pointer, malloc_seq_num) ==
    LET reg == registerBlock(S, t, pointer, Info(malloc_seq_num, size),
                             nd.r_reg, nd.reg_ok)
        traced == S.g_verbose_mode >= VERBOSE_FAILED_ALLOCATIONS
    IN  IF reg.ret = NULL
        THEN [S |-> reg.S, ret |-> NULL, path |-> "registry_oom",
              seq |-> malloc_seq_num, trace |-> "none"]
        ELSE [S |-> IF traced
                    THEN guardedTraverseStack(reg.S, t, depth,
                             "printFrameInfo", stack, nd).S
                    ELSE reg.S,
              ret |-> pointer, path |-> "tracked", seq |-> malloc_seq_num,
              trace |-> IF traced THEN "successful" ELSE "none"]

\* my_malloc after g_malloc_counter++, with the locals it holds there.
\* The result names the return statement taken (path), the sequence number
\* the call was given and the trace it printed.
my_malloc_decide(S3, t, size, stack, nd, depth, white, ignore, malloc_seq_num) ==
    IF white \/ size = 0
    THEN LET m == nonFailingMalloc(S3, t, nd.r_user, nd.native)
         IN  [S |-> m.S, ret |-> m.ret, path |-> "white", seq |-> malloc_seq_num,
              trace |-> "none"]
    ELSE IF isTimeToFail(S3, malloc_seq_num, nd.r_fail)
    THEN LET traced == S3.g_verbose_mode = VERBOSE_FAILED_ALLOCATIONS
             S4 == IF traced
                   THEN guardedTraverseStack(S3, t, depth, "printFrameInfo",
                                             stack, nd).S
                   ELSE S3
         IN  [S |-> [S4 EXCEPT !.errno[t] = ENOMEM], ret |-> NULL,
              path |-> "failed", seq |-> malloc_seq_num,
              trace |-> IF traced THEN "failed" ELSE "none"]
    ELSE
    LET m == nonFailingMalloc(S3, t, nd.r_user, nd.native)
    IN
    IF m.ret = NULL
    THEN [S |-> m.S, ret |-> NULL, path |-> "oom", seq |-> malloc_seq_num,
          trace |-> "none"]
    ELSE IF ~ignore
    THEN my_malloc_register(m.S, t, size, stack, nd, depth, m.ret,
                            malloc_seq_num)
    ELSE [S |-> m.S, ret |-> m.ret, path |-> "ignored", seq |-> malloc_seq_num,
          trace |-> "none"]

\* my_malloc from what my_malloc_enter left (h): its result where the call
\* has returned, the rest of the call otherwise.
my_malloc_leave(h, t, size, stack, nd) ==
    IF h.done
    THEN [S |-> h.S, ret |-> h.ret, path |-> h.path, seq |-> -1,
          trace |-> "none"]
    ELSE my_malloc_decide(h.S, t, size, stack, nd, h.depth, h.white,
                          h.ignore, h.seq)

\* The whole call.  seq is -1 for a call that was given no sequence number.
my_malloc(S0, t, size, stack, nd) ==
    my_malloc_leave(my_malloc_enter(S0, t, stack, nd), t, size, stack, nd)

\* A realloc that looks at the size before the pointer.
my_realloc_SizeFirst(S, t, pointer, size, stack, nd, clob) ==
    IF size = 0
    THEN [S |-> my_free(S, t, pointer, clob), ret |-> NULL, path |-> "free",
          seq |-> -1, trace |-> "none"]
    ELSE IF pointer = NULL
    THEN my_malloc(S, t, size, stack, nd)
    ELSE IF count(S.g_allocated, pointer) = 0
    THEN LET n == native_realloc(S, t, pointer, nd.native)
         IN  [S |-> n.S, ret |-> n.ret, path |-> "native_realloc", seq |-> -1,
              trace |-> "none"]
    ELSE LET m == my_malloc(S, t, size, stack, nd)
         IN  IF m.ret = NULL
             THEN m
             ELSE [m EXCEPT !.S = my_free(m.S, t, pointer, clob)]

\* A realloc that releases the old block whatever the new allocation gave.
my_realloc_FreesFirst(S, t, pointer, size, stack, nd, clob) ==
    IF pointer = NULL
    THEN my_malloc(S, t, size, stack, nd)
    ELSE IF size = 0
    THEN [S |-> my_free(S, t, pointer, clob), ret |-> NULL, path |-> "free",
          seq |-> -1, trace |-> "none"]
    ELSE IF count(S.g_allocated, pointer) = 0
    THEN LET n == native_realloc(S, t, pointer, nd.native)
         IN  [S |-> n.S, ret |-> n.ret, path |-> "native_realloc", seq |-> -1,
              trace |-> "none"]
    ELSE LET m == my_malloc(S, t, size, stack, nd)
         IN  [m EXCEPT !.S = my_free(m.S, t, pointer, clob)]

\* The call makes one native allocation at most, the native realloc or the
\* caller's block in my_malloc: nd.native is the answer to either.
\* A realloc that does not release the old block.
my_realloc_KeepsOld(S, t, pointer, size, stack, nd, clob) ==
    IF pointer = NULL
    THEN my_malloc(S, t, size, stack, nd)
    ELSE IF size = 0
    THEN [S |-> my_free(S, t, pointer, clob), ret |-> NULL, path |-> "free",
          seq |-> -1, trace |-> "none"]
    ELSE IF count(S.g_allocated, pointer) = 0
    THEN LET n == native_realloc(S, t, pointer, nd.native)
         IN  [S |-> n.S, ret |-> n.ret, path |-> "native_realloc", seq |-> -1,
              trace |-> "none"]
    ELSE my_malloc(S, t, size, stack, nd)

\* A realloc that does not look for the pointer in the registry.
my_realloc_TracksNow(S, t, pointer, size, stack, nd, clob) ==
    IF pointer = NULL
    THEN my_malloc(S, t, size, stack, nd)
    ELSE IF size = 0
    THEN [S |-> my_free(S, t, pointer, clob), ret |-> NULL, path |-> "free",
          seq |-> -1, trace |-> "none"]
    ELSE LET m == my_malloc(S, t, size, stack, nd)
         IN  IF m.ret = NULL
             THEN m
             ELSE [m EXCEPT !.S = my_free(m.S, t, pointer, clob)]

my_realloc(S, t, pointer, size, stack, nd, clob) ==
    IF pointer = NULL
    THEN my_malloc(S, t, size, stack, nd)
    ELSE IF size = 0
    THEN [S |-> my_free(S, t, pointer, clob), ret |-> NULL, path |-> "free",
          seq |-> -1, trace |-> "none"]
    ELSE IF count(S.g_allocated, pointer) = 0
    THEN LET n == native_realloc(S, t, pointer, nd.native)
         IN  [S |-> n.S, ret |-> n.ret, path |-> "native_realloc", seq |-> -1,
              trace |-> "none"]
    ELSE LET m == my_malloc(S, t, size, stack, nd)
         IN  IF m.ret = NULL
             THEN m
             ELSE [m EXCEPT !.S = my_free(m.S, t, pointer, clob)]

\* ------------------------------------------------------------------------
\* The host: what it calls, and what it has observed
\* ------------------------------------------------------------------------
\* Call stacks of the host above malloc, the direct caller first.
StackPlain ==
    <<"main">>
StackException ==
    <<"__cxa_allocate_exception", "main">>
StackDlError ==
    <<"_dl_signal_error", "dlerror", "main">>
StackDlMap ==
    <<"_dl_new_object", "_dl_map_object", "dlopen">>

\* What the classifier answers for a call stack.
Classify(stack, unw_fail) ==
    traverseFrames(<<"malloc">> \o stack, 1, g_verbose_mode, "checker", unw_fail)

\* What the native allocator can answer: no memory, or a block.  Addresses
\* are interchangeable, so the block is the lowest free one.
NativeOffers ==
    {NULL} \cup {p \in Ptrs \ heap : \A q \in Ptrs \ heap : p <= q}

\* The inputs the state leaves open for one malloc.
AllInputs(Walks, Fails) ==
    [walk : Walks, unw_fail : Fails,
     r_walk : IF g_self_overthrow /\ Walks # {0} THEN Rands ELSE {1},
     r_fail : IF g_activated /\ g_strategy = STRATEGY_RANDOM
              THEN Rands ELSE {1},
     r_user : IF g_self_overthrow THEN Rands ELSE {1},
     native : NativeOffers,
     r_reg : IF g_self_overthrow THEN Rands ELSE {1},
     reg_ok : IF g_activated THEN BOOLEAN ELSE {TRUE}]

\* The inputs that make a difference: nothing is asked for the registry
\* node when the caller's block was not got.
MallocInputs(Walks, Fails) ==
    {nd \in AllInputs(Walks, Fails) :
        nd.native = NULL \/ nd.r_user = 0 => nd.reg_ok /\ nd.r_reg = 1}

\* What the locked region of free may leave in errno.
Clobbers ==
    {NoClobber, ERANGE}

FreeInputs(pointer) ==
    IF g_activated /\ pointer # NULL THEN Clobbers ELSE {NoClobber}

\* The history variables.  last is the call that has just returned:
\*   op, t, ptr, size   the call and its arguments
\*   ret                the value returned
\*   e0                 errno of the calling thread on entry
\*   act                g_activated on entry
\*   passed             the thread's pause counter was non-zero on entry
\*   elig               size > 0 and the call site is not white-listed
\*   ignore             the call site is ignore-listed
\*   seq                the sequence number given to the call (-1: none)
\*   native             what the native allocator has to offer the call
\*   reg_ok             the registry can get storage for one more entry
\*   path               the return statement taken
\*   trace              the trace the call printed ("none": no trace)
\*   walk               the allocations the stack walker made for the call
\*   inner              what the first of them returned and left
\* tracked is the set of live blocks returned by tracked allocations since
\* the last deactivation; since counts the allocations made since the last
\* activation while activated and not passed through by a pause (calls),
\* the eligible ones among them (elig) and those of the eligible ones that
\* returned NULL (failed), and holds the value the sequence counter had when
\* activateOverthrower was called (before); pauses[t] is the stack of pause
\* levels the thread has pushed, each with its duration n and the number k
\* of allocations the thread has made at that level while activated,
\* counted up to n + 1.  watch names the observations a specification
\* keeps: "errno" for e0, "since" for since, "failed" and "before" for
\* these two fields of since, "deep" for pause stacks that overflow,
\* "dropped" for since.dropped, the pause counter that governed the
\* thread's mallocs when it last called deactivateOverthrower, "erased"
\* for the path of a free that found an entry to erase, "given" for
\* since.given, the sequence numbers fetched since the last activation by
\* the mallocs that run in two steps, and since.own, the last of them each
\* thread fetched; the others are left at their initial values.
Entry(t) ==
    IF "errno" \in watch THEN errno[t] ELSE 0

\* No allocation was made by the walker.
NoWalk ==
    [ret |-> NULL, seq |-> -1, path |-> "none", kept |-> TRUE]

\* The malloc the walker makes while classifying the caller of a malloc of
\* thread t: what it returned, and whether it left the registry and the
\* sequence counter as they were.
WalkerCall(t, stack, nd) ==
    IF g_activated /\ nd.walk > 0
    THEN LET S1 == guardWalk(Cur, t, g_state[t].depth)
             m == walkerMalloc(S1, t, stack, nd)
         IN  [ret |-> m.ret, seq |-> m.seq, path |-> m.path,
              kept |-> /\ m.S.g_allocated = g_allocated
                       /\ m.S.g_malloc_counter = g_malloc_counter]
    ELSE NoWalk

NoCall ==
    [op |-> "none", t |-> 0, ptr |-> NULL, size |-> 0, ret |-> NULL, e0 |-> 0,
     act |-> FALSE, passed |-> FALSE, elig |-> FALSE, ignore |-> FALSE,
     seq |-> -1,
     native |-> NULL, reg_ok |-> TRUE, path |-> "none", trace |-> "none",
     walk |-> 0, inner |-> NoWalk]

NoneSince ==
    [calls |-> 0, elig |-> 0, failed |-> 0, before |-> 0, dropped |-> 0,
     given |-> {}, own |-> [t \in Threads |-> -1]]

\* frame[t] of a thread that is not within a call; otherwise frame[t]
\* holds the arguments and the locals of the call the thread is in, and pc
\* where in it the thread is:
\*   "counted"     my_malloc, past g_malloc_counter++
\*   "allocate"    my_malloc, holding g_mutex within g_allocated.emplace,
\*                 in the native malloc of mallocFreeAllocator::allocate
\*   "deallocate"  my_free, holding g_mutex within g_allocated.erase, in
\*                 the native free of mallocFreeAllocator::deallocate
\*   "erase"       my_free, holding g_mutex within g_allocated.erase,
\*                 which found no entry
\*   "count"       my_realloc, within g_allocated.count
\*   "initialize"  my_malloc, past the test of g_initialized, which it
\*                 found false, at the call of initialize
\*   "resolve"     initialize, entered with g_initialized false, at dlsym
\*   "again"       initialize, entered with g_initialized true in a build
\*                 without assertions, at dlsym
\*   "aborted"     initialize, entered with g_initialized true: the
\*                 assertion has ended the process
\*   "null_call"   my_free or my_realloc, at a call through native_free or
\*                 native_realloc, which is null: the process has ended
\*   "lock"        my_free, at the lock_guard of g_mutex
\* ptr is the block the call is about, e0 the old_errno of my_free, locks
\* the number of times the thread has locked g_mutex.
NoFrame ==
    [pc |-> "idle", size |-> 0, stack |-> <<>>, depth |-> 0, white |-> FALSE,
     ignore |-> FALSE, malloc_seq_num |-> -1, ptr |-> NULL, e0 |-> 0,
     locks |-> 0]

Start(w) ==
    /\ g_activated = LoadState.g_activated
    /\ g_self_overthrow = LoadState.g_self_overthrow
    /\ g_verbose_mode = LoadState.g_verbose_mode
    /\ g_strategy = LoadState.g_strategy
    /\ g_seed = LoadState.g_seed
    /\ g_duty_cycle = LoadState.g_duty_cycle
    /\ g_delay = LoadState.g_delay
    /\ g_duration = LoadState.g_duration
    /\ g_malloc_counter = LoadState.g_malloc_counter
    /\ g_state = LoadState.g_state
    /\ g_initialized = LoadState.g_initialized
    /\ g_allocated = LoadState.g_allocated
    /\ errno = LoadState.errno
    /\ heap = LoadState.heap
    /\ last = NoCall
    /\ tracked = {}
    /\ since = NoneSince
    /\ pauses = [t \in Threads |-> <<>>]
    /\ watch = w
    /\ frame = [t \in Threads |-> NoFrame]

Init ==
    Start({})

Activate(t, env, u) ==
    /\ Commit(activateOverthrower(Cur, t, env, u))
    /\ last' = [NoCall EXCEPT !.op = "activate", !.t = t, !.e0 = Entry(t),
                              !.act = g_activated]
    /\ since' = [NoneSince EXCEPT
                    !.before = IF "before" \in watch THEN g_malloc_counter
                               ELSE 0,
                    !.dropped = since.dropped]
    /\ UNCHANGED <<tracked, pauses, watch, frame>>

Deactivate(t) ==
    LET r == deactivateOverthrower(Cur, t)
    IN  /\ Commit(r.S)
        /\ last' = [NoCall EXCEPT !.op = "deactivate", !.t = t, !.ret = r.ret,
                                  !.e0 = Entry(t), !.act = g_activated]
        /\ tracked' = {}
        /\ pauses' = [pauses EXCEPT ![t] = <<>>]
        /\ since' = [since EXCEPT
                        !.dropped = IF "dropped" \in watch
                                    THEN g_state[t].paused[g_state[t].depth]
                                    ELSE 0]
        /\ UNCHANGED <<watch, frame>>

\* How many pause levels a thread opens: a few, or so many that the pause
\* stack overflows ("deep").
PauseLevels ==
    IF "deep" \in watch THEN MAX_PAUSE_DEPTH + MaxOverflow ELSE MaxPauseLevels

\* The record of a pause: its duration n, the allocations k counted at its
\* level, the depth and the pause counter the thread's mallocs looked at
\* before it, and whether it was called at depth MAX_PAUSE_DEPTH or a pause
\* was called at that depth while it was open (over).
PauseRecord(t, duration) ==
    [n |-> duration, k |-> 0, depth |-> g_state[t].depth,
     paused |-> g_state[t].paused[g_state[t].depth],
     over |-> g_state[t].depth = MAX_PAUSE_DEPTH]

Pause(t, duration) ==
    /\ Len(pauses[t]) < PauseLevels
    /\ Commit(pauseOverthrower(Cur, t, duration))
    /\ last' = [NoCall EXCEPT !.op = "pause", !.t = t, !.size = duration,
                              !.e0 = Entry(t), !.act = g_activated]
    /\ pauses' = [pauses EXCEPT ![t] =
                    Append([i \in DOMAIN @ |->
                               [@[i] EXCEPT !.over =
                                   @ \/ g_state[t].depth = MAX_PAUSE_DEPTH]],
                           PauseRecord(t, duration))]
    /\ UNCHANGED <<tracked, since, watch, frame>>

Resume(t) ==
    /\ Commit(resumeOverthrower(Cur, t))
    /\ last' = [NoCall EXCEPT !.op = "resume", !.t = t, !.e0 = Entry(t),
                              !.act = g_activated]
    /\ pauses' = [pauses EXCEPT ![t] = IF @ = <<>> THEN @
                                        ELSE SubSeq(@, 1, Len(@) - 1)]
    /\ UNCHANGED <<tracked, since, watch, frame>>

\* The pause counter the thread's next malloc looks at.
PausedNow(t) ==
    g_state[t].paused[g_state[t].depth]

\* A call of my_malloc is within the model's bounds.
MallocBounded(t) ==
    g_activated =>
        /\ g_malloc_counter < MaxCounter
        /\ \/ PausedNow(t) <= MaxPauseArg
           \/ PausedNow(t) > UINT_MAX - MaxIndefinite

CountAllocation(ps) ==
    IF g_activated /\ ps # <<>>
    THEN [ps EXCEPT ![Len(ps)].k = IF @ > ps[Len(ps)].n THEN @ ELSE @ + 1]
    ELSE ps

\* The history of a call that went through my_malloc.
AfterMalloc(op, t, ptr, size, stack, nd, m) ==
    LET cls == Classify(stack, nd.unw_fail)
        passed == g_activated /\ PausedNow(t) # 0
        elig == size > 0 /\ ~cls[1]
        tracking == g_activated /\ ~passed /\ elig /\ ~cls[2]
    IN  /\ last' = [op |-> op, t |-> t, ptr |-> ptr, size |-> size,
                    ret |-> m.ret, e0 |-> Entry(t), act |-> g_activated,
                    passed |-> passed, elig |-> elig, ignore |-> cls[2],
                    seq |-> m.seq,
                    native |-> nd.native, reg_ok |-> nd.reg_ok,
                    path |-> m.path, trace |-> m.trace,
                    walk |-> IF g_activated THEN nd.walk ELSE 0,
                    inner |-> WalkerCall(t, stack, nd)]
        /\ tracked' = IF m.ret = NULL THEN tracked
                      ELSE (tracked \ {ptr})
                           \cup (IF tracking THEN {m.ret} ELSE {})
        /\ since' = IF g_activated /\ ~passed /\ "since" \in watch
                     THEN [since EXCEPT
                             !.calls = @ + 1,
                             !.elig = @ + (IF elig THEN 1 ELSE 0),
                             !.failed = @ + (IF /\ "failed" \in watch
                                                   /\ elig /\ m.ret = NULL
                                                THEN 1 ELSE 0)]
                     ELSE since
        /\ pauses' = [pauses EXCEPT ![t] = CountAllocation(@)]
        /\ UNCHANGED watch

Malloc(t, size, stack, nd) ==
    /\ MallocBounded(t)
    /\ LET m == my_malloc(Cur, t, size, stack, nd)
       IN  /\ Commit(m.S)
           /\ AfterMalloc("malloc", t, NULL, size, stack, nd, m)
           /\ UNCHANGED frame

\* What a malloc that has run up to and including g_malloc_counter++
\* leaves (h is what my_malloc_enter gives): a call that returned before
\* that line is the whole call, any other holds its sequence number and
\* the classifier's answers and has not decided yet.
Entered(h, t, size, stack, nd) ==
    /\ Commit(h.S)
    /\ IF h.done
       THEN /\ AfterMalloc("malloc", t, NULL, size, stack, nd,
                           [ret |-> h.ret, seq |-> -1, path |-> h.path,
                            trace |-> "none"])
            /\ frame' = [frame EXCEPT ![t] = NoFrame]
       ELSE /\ frame' = [frame EXCEPT ![t] =
                           [NoFrame EXCEPT
                               !.pc = "counted",
                               !.size = size, !.stack = stack,
                               !.depth = h.depth, !.white = h.white,
                               !.ignore = h.ignore,
                               !.malloc_seq_num = h.seq]]
            /\ since' = IF "given" \in watch
                         THEN [since EXCEPT !.given = @ \cup {h.seq},
                                            !.own[t] = h.seq]
                         ELSE since
            /\ UNCHANGED <<last, tracked, pauses, watch>>

MallocEnter(t, size, stack, nd) ==
    /\ MallocBounded(t)
    /\ frame[t] = NoFrame
    /\ Entered(my_malloc_enter(Cur, t, stack, nd), t, size, stack, nd)

\* The rest of the malloc a thread is in, from the line after
\* g_malloc_counter++ to its return.
MallocReturn(t, nd) ==
    /\ frame[t].pc = "counted"
    /\ LET f == frame[t]
           m == my_malloc_decide(Cur, t, f.size, f.stack, nd, f.depth,
                                 f.white, f.ignore, f.malloc_seq_num)
       IN  /\ Commit(m.S)
           /\ AfterMalloc("malloc", t, NULL, f.size, f.stack, nd, m)
           /\ frame' = [frame EXCEPT ![t] = NoFrame]

Free(t, pointer, clob) ==
    /\ Commit(my_free(Cur, t, pointer, clob))
    /\ last' = [NoCall EXCEPT !.op = "free", !.t = t, !.ptr = pointer,
                              !.e0 = Entry(t), !.act = g_activated,
                              !.path = IF /\ "erased" \in watch
                                          /\ g_activated
                                          /\ count(g_allocated, pointer) = 1
                                       THEN "erased" ELSE "none"]
    /\ tracked' = tracked \ {pointer}
    /\ UNCHANGED <<since, pauses, watch, frame>>

Realloc(t, pointer, size, stack, nd, clob) ==
    LET r == my_realloc(Cur, t, pointer, size, stack, nd, clob)
        via_malloc == pointer = NULL \/ (size # 0 /\ pointer \in tracked)
    IN  /\ via_malloc => MallocBounded(t)
        /\ Commit(r.S)
        /\ IF via_malloc
           THEN /\ AfterMalloc("realloc", t, pointer, size, stack, nd, r)
                /\ UNCHANGED frame
           ELSE /\ last' = [NoCall EXCEPT
                              !.op = "realloc", !.t = t, !.ptr = pointer,
                              !.size = size, !.ret = r.ret, !.e0 = Entry(t),
                              !.act = g_activated, !.path = r.path,
                              !.native = nd.native]
                /\ tracked' = IF size = 0 \/ r.ret # NULL
                              THEN tracked \ {pointer} ELSE tracked
                /\ UNCHANGED <<since, pauses, watch, frame>>

\* The native allocator has a block and storage for its registry entry.
ThreadInputs ==
    {nd \in MallocInputs({0}, {0}) : nd.native # NULL /\ nd.reg_ok}

\* ------------------------------------------------------------------------
\* The calls step by step: g_mutex and the registry
\* ------------------------------------------------------------------------
\* The thread owns g_mutex.
Holds(t) ==
    frame[t].locks > 0

\* std::recursive_mutex: the thread can lock g_mutex unless another thread
\* owns it.
MutexFree(t) ==
    \A b \in Threads \ {t} : ~Holds(b)

\* A lock_guard that does not unlock when the guarded block is left by an
\* exception.
lock_guard_exit_HeldOnThrow(threw) ==
    IF threw THEN [NoFrame EXCEPT !.locks = 1] ELSE NoFrame

\* ~lock_guard on either way out of the guarded block, and the return of
\* the call.
lock_guard_exit(threw) ==
    NoFrame

\* The thread is within a call of the native allocator.
InNative(t) ==
    frame[t].pc \in {"allocate", "deallocate"}

\* The thread is within a member function of g_allocated that changes it:
\* emplace, or an erase that found the key.
Modifying(t) ==
    frame[t].pc \in {"allocate", "deallocate"}

\* The thread is within a member function of g_allocated.
Accessing(t) ==
    frame[t].pc \in {"allocate", "deallocate", "erase", "count"}

\* No call in flight is about the block.
Quiet(pointer) ==
    \A b \in Threads : frame[b].ptr # pointer

\* The malloc thread t is in goes on to register its block: it is not
\* white-listed, not of size 0, not failed by the strategy and not
\* ignore-listed, and the native allocator has a block for it.
Registers(t, nd) ==
    /\ ~(frame[t].white \/ frame[t].size = 0)
    /\ ~isTimeToFail(Cur, frame[t].malloc_seq_num, nd.r_fail)
    /\ nonFailingMalloc(Cur, t, nd.r_user, nd.native).ret # NULL
    /\ ~frame[t].ignore

\* my_malloc from the line after g_malloc_counter++ to its return, for a
\* call that does not come to the registration.
MallocRest(t, nd) ==
    /\ frame[t].pc = "counted"
    /\ ~Registers(t, nd)
    /\ MallocReturn(t, nd)

\* my_malloc from the line after g_malloc_counter++ into
\* g_allocated.emplace: the native malloc of the caller's block, the
\* lock_guard, and emplace up to the allocation of its node.
MallocLock(t, nd) ==
    /\ frame[t].pc = "counted"
    /\ Registers(t, nd)
    /\ MutexFree(t)
    /\ LET m == nonFailingMalloc(Cur, t, nd.r_user, nd.native)
       IN  /\ Commit(m.S)
           /\ frame' = [frame EXCEPT ![t] =
                           [@ EXCEPT !.pc = "allocate", !.ptr = m.ret,
                                     !.locks = @ + 1]]
    /\ UNCHANGED <<last, tracked, since, pauses, watch>>

\* The rest of the call: the node is allocated and linked or bad_alloc is
\* thrown and caught, g_mutex is unlocked, the trace is printed.
MallocInsert(t, nd) ==
    /\ frame[t].pc = "allocate"
    /\ LET f == frame[t]
           m == my_malloc_register(Cur, t, f.size, f.stack, nd, f.depth,
                                   f.ptr, f.malloc_seq_num)
       IN  /\ Commit(m.S)
           /\ AfterMalloc("malloc", t, NULL, f.size, f.stack,
                          [nd EXCEPT !.native = f.ptr], m)
           /\ frame' = [frame EXCEPT ![t] = lock_guard_exit(m.ret = NULL)]

\* my_free of a block while activated, up to the lock_guard.
FreeEnter(t, pointer) ==
    /\ frame[t].pc = "idle"
    /\ pointer # NULL
    /\ g_activated
    /\ Quiet(pointer)
    /\ Commit(Cur)
    /\ frame' = [frame EXCEPT ![t] =
                    [NoFrame EXCEPT !.pc = "lock", !.ptr = pointer,
                                    !.e0 = errno[t]]]
    /\ UNCHANGED <<last, tracked, since, pauses, watch>>

\* The lock_guard and g_allocated.erase up to the release of the node it
\* unlinked, if it found one.
FreeLock(t) ==
    /\ frame[t].pc = "lock"
    /\ MutexFree(t)
    /\ Commit([Cur EXCEPT !.g_allocated = erase(@, frame[t].ptr)])
    /\ frame' = [frame EXCEPT ![t] =
                    [@ EXCEPT !.pc = IF count(g_allocated, frame[t].ptr) = 1
                                     THEN "deallocate" ELSE "erase",
                              !.locks = @ + 1]]
    /\ UNCHANGED <<last, tracked, since, pauses, watch>>

\* The rest of my_free: errno = old_errno, the unlock, native_free.
FreeUnlock(t) ==
    /\ frame[t].pc \in {"deallocate", "erase"}
    /\ Commit(native_free([Cur EXCEPT !.errno[t] = frame[t].e0],
                          frame[t].ptr))
    /\ last' = [NoCall EXCEPT !.op = "free", !.t = t, !.ptr = frame[t].ptr,
                              !.e0 = Entry(t), !.act = TRUE,
                              !.path = IF frame[t].pc = "deallocate"
                                       THEN "erased" ELSE "none"]
    /\ tracked' = tracked \ {frame[t].ptr}
    /\ frame' = [frame EXCEPT ![t] = lock_guard_exit(FALSE)]
    /\ UNCHANGED <<since, pauses, watch>>

\* my_free of NULL, or while not activated.
FreeUnlocked(t, pointer) ==
    /\ frame[t].pc = "idle"
    /\ pointer = NULL \/ ~g_activated
    /\ Quiet(pointer)
    /\ Free(t, pointer, NoClobber)

\* my_realloc of a block to a size other than 0, into
\* g_allocated.count(pointer).
ReallocEnter(t, pointer, size, stack) ==
    /\ frame[t].pc = "idle"
    /\ pointer # NULL /\ size # 0
    /\ Quiet(pointer)
    /\ MallocBounded(t)
    /\ Commit(Cur)
    /\ frame' = [frame EXCEPT ![t] =
                    [NoFrame EXCEPT !.pc = "count", !.ptr = pointer,
                                    !.size = size, !.stack = stack]]
    /\ UNCHANGED <<last, tracked, since, pauses, watch>>

\* What g_allocated.count(pointer), called without g_mutex, can return:
\* the number of entries with that key, or, while another thread is within
\* emplace or erase, 0 for a key that has an entry (a data race: the
\* reader misses a node the writer is relinking).
Counts(t) ==
    {count(g_allocated, frame[t].ptr)}
        \cup (IF \E b \in Threads \ {t} : Modifying(b) THEN {0} ELSE {})

\* Where the native realloc moves a block: to the lowest free address, or
\* to the spare one; with neither free it fails.
Moves ==
    IF NativeOffers # {NULL} THEN NativeOffers \ {NULL}
    ELSE IF SparePtr \notin heap THEN {SparePtr}
    ELSE {NULL}

\* The rest of my_realloc for a pointer count did not find.
ReallocNative(t, nat) ==
    /\ frame[t].pc = "count"
    /\ 0 \in Counts(t)
    /\ LET f == frame[t]
           n == native_realloc(Cur, t, f.ptr, nat)
       IN  /\ Commit(n.S)
           /\ last' = [NoCall EXCEPT
                          !.op = "realloc", !.t = t, !.ptr = f.ptr,
                          !.size = f.size, !.ret = n.ret, !.e0 = Entry(t),
                          !.act = g_activated, !.path = "native_realloc",
                          !.native = nat]
           /\ tracked' = IF n.ret = NULL THEN tracked
                         ELSE tracked \ {f.ptr}
    /\ frame' = [frame EXCEPT ![t] = NoFrame]
    /\ UNCHANGED <<since, pauses, watch>>

\* The rest of my_realloc for a pointer count found: my_malloc and
\* my_free, run in one step once g_mutex is free.
ReallocTracked(t, nd) ==
    /\ frame[t].pc = "count"
    /\ count(g_allocated, frame[t].ptr) = 1
    /\ MutexFree(t)
    /\ LET f == frame[t]
           r == my_realloc(Cur, t, f.ptr, f.size, f.stack, nd, NoClobber)
       IN  /\ Commit(r.S)
           /\ AfterMalloc("realloc", t, f.ptr, f.size, f.stack, nd, r)
    /\ frame' = [frame EXCEPT ![t] = NoFrame]

\* The registry gets the storage for its node or not.
NodeInputs ==
    AllInputs({0}, {0})

\* The native allocator has a block unless every address is in use, and
\* storage for the registry's node.
CallInputs ==
    {nd \in MallocInputs({0}, {0}) :
        nd.reg_ok /\ (nd.native = NULL => NativeOffers = {NULL})}

\* The steps of the call thread t is in, but for the realloc of a block
\* that has an entry.
Proceed(t) ==
    \/ \E nd \in CallInputs :
          \/ MallocRest(t, nd)
          \/ MallocLock(t, nd)
    \/ \E nat \in Moves : ReallocNative(t, nat)
    \/ \E nd \in NodeInputs : MallocInsert(t, nd)
    \/ FreeLock(t)
    \/ FreeUnlock(t)

\* ------------------------------------------------------------------------
\* The first calls of the process
\* ------------------------------------------------------------------------
\* native_malloc, native_realloc and native_free are null until initialize
\* has stored what dlsym found, which it does just before it sets
\* g_initialized.
Resolved(S) ==
    S.g_initialized

\* The process has ended.
Ended ==
    \E t \in Threads : frame[t].pc \in {"aborted", "null_call"}

\* A block from an allocation function the shim does not define (calloc,
\* posix_memalign): the native allocator is called directly.
NativeBlock(t, nat) ==
    /\ frame[t].pc = "idle"
    /\ nat # NULL
    /\ Commit(native_malloc(Cur, t, nat).S)
    /\ UNCHANGED <<last, tracked, since, pauses, watch, frame>>

\* my_malloc: if (!g_initialized), found true.
MallocTest(t, size, stack) ==
    /\ frame[t].pc = "idle"
    /\ ~g_initialized
    /\ MallocBounded(t)
    /\ Commit(Cur)
    /\ frame' = [frame EXCEPT ![t] =
                    [NoFrame EXCEPT !.pc = "initialize", !.size = size,
                                    !.stack = stack]]
    /\ UNCHANGED <<last, tracked, since, pauses, watch>>

\* The entry of initialize: assert(!g_initialized).  ndebug: the build has
\* no assertions.
InitializeEnter(t, ndebug) ==
    /\ frame[t].pc = "initialize"
    /\ Commit(Cur)
    /\ frame' = [frame EXCEPT ![t].pc =
                    IF ~g_initialized THEN "resolve"
                    ELSE IF ndebug THEN "again"
                    ELSE "aborted"]
    /\ UNCHANGED <<last, tracked, since, pauses, watch>>

\* The rest of initialize, and my_malloc up to and including
\* g_malloc_counter++.
InitializeDone(t, nd) ==
    /\ frame[t].pc \in {"resolve", "again"}
    /\ Entered(my_malloc_enter(initialize(Cur), t, frame[t].stack, nd), t,
               frame[t].size, frame[t].stack, nd)

\* my_free while not activated: the call is native_free(pointer) unless
\* the pointer is NULL.
FreeCall(t, pointer) ==
    /\ frame[t].pc = "idle"
    /\ ~g_activated
    /\ Quiet(pointer)
    /\ IF pointer = NULL \/ Resolved(Cur)
       THEN Free(t, pointer, NoClobber)
       ELSE /\ Commit(Cur)
            /\ frame' = [frame EXCEPT ![t] =
                            [NoFrame EXCEPT !.pc = "null_call",
                                            !.ptr = pointer]]
            /\ UNCHANGED <<last, tracked, since, pauses, watch>>

\* my_realloc of a block while not activated: my_free for size 0, else
\* native_realloc, the registry being empty.
ReallocCall(t, pointer, size, stack, nd) ==
    /\ frame[t].pc = "idle"
    /\ ~g_activated
    /\ pointer # NULL
    /\ Quiet(pointer)
    /\ IF Resolved(Cur)
       THEN Realloc(t, pointer, size, stack, nd, NoClobber)
       ELSE /\ Commit(Cur)
            /\ frame' = [frame EXCEPT ![t] =
                            [NoFrame EXCEPT !.pc = "null_call",
                                            !.ptr = pointer, !.size = size]]
            /\ UNCHANGED <<last, tracked, since, pauses, watch>>

\* strdup("string") asks malloc for the text and its terminator.
StrdupSize ==
    7

\* fragileCode(iterations): strdup, a write through the pointer, free; the
\* write through a NULL pointer ends the process (crashed).
RECURSIVE fragileCode(_, _, _, _)
fragileCode(S, t, iterations, nd) ==
    IF iterations = 0
    THEN [S |-> S, crashed |-> FALSE]
    ELSE LET m == my_malloc(S, t, StrdupSize, StackPlain, nd)
         IN  IF m.ret = NULL
             THEN [S |-> m.S, crashed |-> TRUE]
             ELSE fragileCode(my_free(m.S, t, m.ret, NoClobber), t,
                              iterations - 1, nd)

\* What fragileCode(iterations) leaves when the thread's pause counter is
\* at least iterations on entry and the native allocator has a block: every
\* malloc of the loop takes the paused branch and counts the pause down by
\* one, and every block is released again.
pausedRun(S, t, iterations) ==
    [initialize(S) EXCEPT
        !.g_state[t].paused[S.g_state[t].depth] = @ - iterations]

\* A loop long enough to use up a pause counter set to UINT_MAX but for the
\* last MaxPauseArg allocations.
LongRun ==
    UINT_MAX - MaxPauseArg

\* fragileCode run within a pause that covers the whole loop.
FragileCode(t, iterations, nd) ==
    /\ g_activated
    /\ ~g_self_overthrow
    /\ nd.native # NULL
    /\ PausedNow(t) >= iterations
    /\ \/ PausedNow(t) - iterations <= MaxPauseArg
       \/ PausedNow(t) - iterations > UINT_MAX - MaxIndefinite
    /\ Commit(IF iterations <= MaxPauseArg
              THEN fragileCode(Cur, t, iterations, nd).S
              ELSE pausedRun(Cur, t, iterations))
    /\ last' = [NoCall EXCEPT !.op = "fragileCode", !.t = t,
                              !.size = iterations, !.e0 = Entry(t),
                              !.act = g_activated, !.passed = TRUE,
                              !.native = nd.native]
    /\ pauses' = [pauses EXCEPT ![t] =
                    IF @ = <<>> THEN @
                    ELSE [@ EXCEPT ![Len(@)].k =
                            IF @ + iterations > pauses[t][Len(pauses[t])].n
                            THEN pauses[t][Len(pauses[t])].n + 1
                            ELSE @ + iterations]]
    /\ UNCHANGED <<tracked, since, watch, frame>>

\* The host assigns errno.
SetErrno(t, e) ==
    /\ errno[t] # e
    /\ errno' = [errno EXCEPT ![t] = e]
    /\ last' = [NoCall EXCEPT !.op = "errno", !.t = t, !.e0 = Entry(t),
                              !.act = g_activated]
    /\ UNCHANGED <<g_activated, g_self_overthrow, g_verbose_mode, g_strategy,
                   g_seed, g_duty_cycle, g_delay, g_duration,
                   g_malloc_counter, g_state, g_initialized, g_allocated,
                   heap, tracked, since, pauses, watch, frame>>

\* ------------------------------------------------------------------------
\* Specifications
\* ------------------------------------------------------------------------
\* The environment of one activation.
Env(strategy, delay, duration, duty_cycle, self_overthrow, verbose) ==
    [strategy |-> strategy, seed |-> 0, duty_cycle |-> duty_cycle,
     delay |-> delay, duration |-> duration,
     self_overthrow |-> self_overthrow, verbose |-> verbose]

\* /dev/urandom cannot be read: every random fallback is the midpoint.
NoUrandom ==
    [strategy |-> -1, seed |-> -1, duty_cycle |-> -1, delay |-> -1,
     duration |-> -1]

\* One thread, no pause, the step and pulse strategies: the pattern of
\* successes and failures after an activation.
EnvsPattern ==
    {Env(st, d, k, Unset, FALSE, Unset) :
        st \in {STRATEGY_STEP, STRATEGY_PULSE},
        d \in 0..MaxDelay, k \in 1..MaxDuration}

NextPattern ==
    \/ \E env \in EnvsPattern : Activate(1, env, NoUrandom)
    \/ Deactivate(1)
    \/ \E size \in {0, 1}, stack \in {StackPlain, StackException},
          nd \in MallocInputs({0}, {0}) : Malloc(1, size, stack, nd)
    \/ \E pointer \in heap : Free(1, pointer, NoClobber)

InitPattern ==
    Start({"since"})

SpecPattern ==
    InitPattern /\ [][NextPattern]_vars

\* The texts an environment variable with the range min..max is given: none,
\* no number, a number too big for strtoul, the ends of the range and the
\* numbers next to them outside it.
Kinds ==
    {"unset", "not a number", "too big", "min", "max", "below", "above"}

Text(kind, min, max) ==
    CASE kind = "unset" -> Unset
      [] kind = "not a number" -> NotANumber
      [] kind = "too big" -> TooBig
      [] kind = "min" -> min
      [] kind = "max" -> max
      [] kind = "below" -> IF min > 0 THEN min - 1 ELSE NotANumber
      [] kind = "above" -> IF max < UINT_MAX THEN max + 1 ELSE TooBig

\* Every kind of text for OVERTHROWER_STRATEGY and every strategy, with one
\* kind of text for the other variables.
EnvsConfig ==
    {[strategy |-> st,
      seed |-> Text(kind, 0, UINT_MAX),
      duty_cycle |-> Text(kind, MIN_DUTY_CYCLE, MAX_DUTY_CYCLE),
      delay |-> Text(kind, MIN_DELAY, MAX_DELAY),
      duration |-> Text(kind, MIN_DURATION, MAX_DURATION),
      self_overthrow |-> FALSE,
      verbose |-> Text(kind, VERBOSE_NO, VERBOSE_ALL_ALLOCATIONS)] :
        st \in {Text(k, STRATEGY_RANDOM, STRATEGY_NONE) : k \in Kinds}
               \cup (STRATEGY_RANDOM..STRATEGY_NONE),
        kind \in Kinds}

\* What the reads of /dev/urandom give: nothing (-1), or the same number
\* for every variable.
Urandoms ==
    {[strategy |-> v, seed |-> v, duty_cycle |-> v, delay |-> v,
      duration |-> v] : v \in {-1, 0, STRATEGY_PULSE, UINT_MAX}}

NextConfig ==
    \/ \E env \in EnvsConfig, u \in Urandoms : Activate(1, env, u)
    \/ Deactivate(1)

SpecConfig ==
    Init /\ [][NextConfig]_vars

\* Two threads within my_malloc at once under step and pulse, activated
\* while no call is in flight.
EnvsRace ==
    {Env(STRATEGY_STEP, d, Unset, Unset, FALSE, Unset) : d \in 0..MaxDelay}
    \cup {Env(STRATEGY_PULSE, d, k, Unset, FALSE, Unset) :
             d \in 0..MaxDelay, k \in 1..MaxDuration}

NextRace ==
    \/ /\ \A t \in Threads : frame[t] = NoFrame
       /\ \E env \in EnvsRace : Activate(1, env, NoUrandom)
    \/ \E t \in Threads, nd \in ThreadInputs :
          g_activated /\ MallocEnter(t, 1, StackPlain, nd)
    \/ \E t \in Threads, nd \in ThreadInputs : MallocReturn(t, nd)
    \/ \E pointer \in heap : Free(1, pointer, NoClobber)

InitRace ==
    Start({"since", "failed"})

SpecRace ==
    InitRace /\ [][NextRace]_vars

\* The same, with the sequence numbers the mallocs fetched remembered.
InitNumbers ==
    Start({"since", "given"})

SpecNumbers ==
    InitNumbers /\ [][NextRace]_vars

\* Two threads within malloc, free and realloc at once, under the strategy
\* that fails nothing and under step; the shim is activated and
\* deactivated while no call is in flight.
EnvsLock ==
    {Env(STRATEGY_STEP, MaxDelay, Unset, Unset, FALSE, Unset)}

Calls ==
    \/ \E t \in Threads, nd \in ThreadInputs :
          frame[t].pc = "idle" /\ MallocEnter(t, 1, StackPlain, nd)
    \/ \E pointer \in heap : FreeEnter(2, pointer)
    \/ \E t \in Threads : Proceed(t)

NextLock ==
    \/ /\ \A t \in Threads : frame[t] = NoFrame
       /\ \/ \E env \in EnvsLock : Activate(1, env, NoUrandom)
          \/ Deactivate(1)
    \/ Calls
    \/ \E pointer \in heap : FreeUnlocked(2, pointer)
    \/ \E pointer \in heap : ReallocEnter(1, pointer, MaxSize, StackPlain)
    \/ \E nd \in CallInputs : ReallocTracked(1, nd)

SpecLock ==
    Init /\ [][NextLock]_vars

\* One activation under a fair scheduler.  The two threads allocate, free,
\* pause, resume and reallocate blocks that have no entry (the realloc of a
\* block that has one is a my_malloc followed by a my_free), while a
\* thread within a call takes its next step, and a thread that waits for
\* g_mutex gets it if it is free again and again.
NextFair ==
    \/ ~g_activated /\ \E env \in EnvsLock : Activate(1, env, NoUrandom)
    \/ Calls
    \/ \E pointer \in heap :
          /\ count(g_allocated, pointer) = 0
          /\ ReallocEnter(1, pointer, MaxSize, StackPlain)
    \/ frame[1].pc = "idle" /\ pauses[1] = <<>> /\ Pause(1, 1)
    \/ frame[1].pc = "idle" /\ pauses[1] # <<>> /\ Resume(1)

SpecLockFair ==
    Init /\ [][NextFair]_vars /\ \A t \in Threads : SF_vars(Proceed(t))

\* The same two threads, with thread 1 deactivating while thread 2 may be
\* within a call; deactivateOverthrower takes no lock, so all that
\* keeps it out is a thread being inside emplace or erase at that moment
\* (that overlap is a race on g_allocated itself).
NextDeactivate ==
    \/ /\ \A t \in Threads : frame[t] = NoFrame
       /\ \E env \in EnvsLock : Activate(1, env, NoUrandom)
    \/ /\ frame[1] = NoFrame
       /\ ~Accessing(2)
       /\ Deactivate(1)
    \/ Calls
    \/ \E pointer \in heap : FreeUnlocked(2, pointer)
    \/ \E pointer \in heap :
          /\ count(g_allocated, pointer) = 0
          /\ ReallocEnter(2, pointer, MaxSize, StackPlain)

SpecDeactivate ==
    Init /\ [][NextDeactivate]_vars

\* The process from its start: two threads whose first calls are malloc,
\* free, realloc and the allocation functions the shim leaves to the
\* native allocator, in any order; once initialize has run, thread 1 may
\* activate and the threads allocate and free as above.
Sizes01 ==
    {0, 1}

NextEarly ==
    \/ ~Ended /\ \E t \in Threads : MallocTest(t, 1, StackPlain)
    \/ ~Ended /\ \E t \in Threads, ndebug \in BOOLEAN :
                    InitializeEnter(t, ndebug)
    \/ ~Ended /\ \E t \in Threads, nd \in ThreadInputs :
                    InitializeDone(t, nd)
    \/ ~Ended /\ \E t \in Threads, nat \in NativeOffers :
                    NativeBlock(t, nat)
    \/ ~Ended /\ \E t \in Threads, pointer \in heap \cup {NULL} :
                    FreeCall(t, pointer)
    \/ ~Ended /\ \E pointer \in heap, size \in Sizes01,
                       nd \in ThreadInputs :
                    ReallocCall(2, pointer, size, StackPlain, nd)
    \/ /\ \A t \in Threads : frame[t] = NoFrame
       /\ g_initialized
       /\ \/ \E env \in EnvsLock : Activate(1, env, NoUrandom)
          \/ Deactivate(1)
    \/ ~Ended /\ g_initialized /\ Calls

SpecEarly ==
    Init /\ [][NextEarly]_vars

\* Every strategy, activated again and again: one thread allocates from
\* plain and from white-listed call sites and frees.
EnvsStrategies ==
    {Env(STRATEGY_STEP, 1, Unset, Unset, FALSE, Unset),
     Env(STRATEGY_PULSE, 0, MaxDuration, Unset, FALSE, Unset),
     Env(STRATEGY_RANDOM, Unset, Unset, 1, FALSE, Unset),
     Env(STRATEGY_NONE, Unset, Unset, Unset, FALSE, Unset)}

NextStrategies ==
    \/ \E env \in EnvsStrategies : Activate(1, env, NoUrandom)
    \/ Deactivate(1)
    \/ \E stack \in {StackPlain, StackException}, nd \in ThreadInputs :
          Malloc(1, 1, stack, nd)
    \/ \E pointer \in heap : Free(1, pointer, NoClobber)

InitStrategies ==
    Start({"since", "before"})

SpecStrategies ==
    InitStrategies /\ [][NextStrategies]_vars

\* Every strategy; one thread activates, deactivates, allocates, frees and
\* reallocates, from tracked and from ignore-listed call sites.
EnvsMain ==
    {Env(STRATEGY_NONE, Unset, Unset, Unset, FALSE, Unset),
     Env(STRATEGY_STEP, 1, Unset, Unset, FALSE, Unset),
     Env(STRATEGY_PULSE, 0, 1, Unset, FALSE, Unset),
     Env(STRATEGY_RANDOM, Unset, Unset, 2, FALSE, Unset)}

StacksMain ==
    {StackPlain, StackDlMap}

Next ==
    \/ \E env \in EnvsMain : Activate(1, env, NoUrandom)
    \/ Deactivate(1)
    \/ \E size \in Sizes, stack \in StacksMain,
          nd \in MallocInputs({0}, {0}) : Malloc(1, size, stack, nd)
    \/ \E pointer \in heap \cup {NULL} :
          Free(1, pointer, NoClobber)
    \/ \E pointer \in heap \cup {NULL}, size \in Sizes,
          stack \in StacksMain, nd \in MallocInputs({0}, {0}) :
          Realloc(1, pointer, size, stack, nd, NoClobber)

Spec ==
    Init /\ [][Next]_vars

\* One thread and its errno: the host assigns errno, the locked region of
\* free may clobber it, and self-overthrow makes native allocations fail.
EnvsErrno ==
    {Env(STRATEGY_NONE, Unset, Unset, Unset, so, Unset) : so \in BOOLEAN}
    \cup {Env(STRATEGY_STEP, 0, Unset, Unset, FALSE, Unset)}

StacksErrno ==
    {StackPlain, StackException}

NextErrno ==
    \/ \E env \in EnvsErrno : Activate(1, env, NoUrandom)
    \/ Deactivate(1)
    \/ \E size \in Sizes, stack \in StacksErrno,
          nd \in MallocInputs({0}, {0}) : Malloc(1, size, stack, nd)
    \/ \E pointer \in heap \cup {NULL} : \E clob \in FreeInputs(pointer) :
          Free(1, pointer, clob)
    \/ \E pointer \in heap \cup {NULL}, size \in Sizes,
          stack \in StacksErrno, nd \in MallocInputs({0}, {0}) :
          \E clob \in FreeInputs(pointer) :
             Realloc(1, pointer, size, stack, nd, clob)
    \/ \E e \in ErrnoValues : SetErrno(1, e)

InitErrno ==
    Start({"errno"})

SpecErrno ==
    InitErrno /\ [][NextErrno]_vars

\* Pauses: the step strategy with delay 0 fails every eligible allocation it
\* decides; one thread pauses for a number of allocations, resumes and
\* allocates.
EnvsPause ==
    {Env(STRATEGY_STEP, 0, Unset, Unset, FALSE, Unset)}

NextPause ==
    \/ \E env \in EnvsPause : Activate(1, env, NoUrandom)
    \/ Deactivate(1)
    \/ \E duration \in 0..MaxPauseArg : Pause(1, duration)
    \/ Resume(1)
    \/ \E size \in Sizes, nd \in MallocInputs({0}, {0}) :
          Malloc(1, size, StackPlain, nd)
    \/ \E pointer \in heap : Free(1, pointer, NoClobber)
    \/ \E iterations \in {1, LongRun}, nd \in MallocInputs({0}, {0}) :
          FragileCode(1, iterations, nd)

SpecPause ==
    Init /\ [][NextPause]_vars

\* Pauses left open at a deactivation, which is remembered: one thread
\* pauses indefinitely or for one allocation, resumes or not, deactivates,
\* activates and allocates.
NextDropped ==
    \/ \E env \in EnvsPause : Activate(1, env, NoUrandom)
    \/ Deactivate(1)
    \/ \E duration \in {0, 1} : Pause(1, duration)
    \/ Resume(1)
    \/ \E size \in Sizes, nd \in ThreadInputs :
          Malloc(1, size, StackPlain, nd)
    \/ \E pointer \in heap : Free(1, pointer, NoClobber)

InitDropped ==
    Start({"dropped"})

SpecDropped ==
    InitDropped /\ [][NextDropped]_vars

\* One thread under the step strategy with delay 0 nests pauses until the
\* pause stack overflows and resumes until it underflows.  It allocates
\* within the pauses of the shallowest and of the deepest levels, and
\* chooses the duration of the pauses it calls at the deepest levels.
DeepAllocDepths ==
    {d \in 0..MAX_PAUSE_DEPTH :
        d < MaxPauseLevels \/ d > MAX_PAUSE_DEPTH - MaxPauseLevels}

DeepDurations ==
    {1} \cup (IF g_state[1].depth >= MAX_PAUSE_DEPTH - 1 THEN {MaxPauseArg}
              ELSE {})

NextDeep ==
    \/ \E env \in EnvsPause : Activate(1, env, NoUrandom)
    \/ \E duration \in DeepDurations : g_activated /\ Pause(1, duration)
    \/ g_activated /\ Resume(1)
    \/ \E nd \in ThreadInputs :
          g_state[1].depth \in DeepAllocDepths /\ FragileCode(1, 1, nd)

InitDeep ==
    Start({"deep"})

SpecDeep ==
    InitDeep /\ [][NextDeep]_vars

\* The same thread also allocates where the pause level it is at has run
\* out, at the two deepest levels.
NextNested ==
    \/ NextDeep
    \/ \E nd \in ThreadInputs :
          /\ g_activated
          /\ g_state[1].depth >= MAX_PAUSE_DEPTH - 1
          /\ PausedNow(1) = 0
          /\ Malloc(1, 1, StackPlain, nd)

SpecNested ==
    InitDeep /\ [][NextNested]_vars

\* Call sites of the three kinds: tracked, white-listed, ignore-listed.
StacksWalker ==
    {StackPlain, StackException, StackDlMap}

\* Blocks of every kind and who frees them: two threads under the strategy
\* that fails nothing allocate from tracked, white-listed and ignore-listed
\* call sites, before and after the activation, within an indefinite pause
\* or not, and free each other's blocks.
EnvsFree ==
    {Env(STRATEGY_NONE, Unset, Unset, Unset, FALSE, Unset)}

NextFree ==
    \/ \E env \in EnvsFree : Activate(1, env, NoUrandom)
    \/ Deactivate(1)
    \/ \E t \in Threads : pauses[t] = <<>> /\ Pause(t, 0)
    \/ \E t \in Threads : Resume(t)
    \/ \E t \in Threads, stack \in StacksWalker, nd \in ThreadInputs :
          Malloc(t, 1, stack, nd)
    \/ \E t \in Threads, pointer \in heap :
          \E clob \in FreeInputs(pointer) : Free(t, pointer, clob)

InitFree ==
    Start({"erased"})

SpecFree ==
    InitFree /\ [][NextFree]_vars

\* realloc of blocks of every kind: one thread under each strategy
\* allocates from tracked and from ignore-listed call sites, before and
\* after the activation, within a pause for one allocation or not, and
\* reallocates its blocks from call sites of both kinds.
NextRealloc ==
    \/ \E env \in EnvsStrategies : Activate(1, env, NoUrandom)
    \/ Deactivate(1)
    \/ pauses[1] = <<>> /\ Pause(1, 1)
    \/ Resume(1)
    \/ \E stack \in StacksMain, nd \in ThreadInputs :
          Malloc(1, 1, stack, nd)
    \/ \E pointer \in heap : Free(1, pointer, NoClobber)
    \/ \E pointer \in heap, stack \in StacksMain,
          nd \in MallocInputs({0}, {0}) :
          Realloc(1, pointer, MaxSize, stack, nd, NoClobber)

SpecRealloc ==
    Init /\ [][NextRealloc]_vars

\* The stack walker allocates: one thread under the step strategy with
\* delay 1, silent or printing the traces of its allocations, or under the
\* strategy that fails nothing, allocates from
\* tracked, white-listed and ignore-listed call sites, within a pause or
\* not, while the walker makes an allocation of its own or none.
EnvsWalker ==
    {Env(STRATEGY_STEP, 1, Unset, Unset, FALSE, v) :
        v \in {Unset, VERBOSE_FAILED_ALLOCATIONS, VERBOSE_ALL_ALLOCATIONS}}
    \cup {Env(STRATEGY_NONE, Unset, Unset, Unset, FALSE, Unset)}

NextWalker ==
    \/ \E env \in EnvsWalker : Activate(1, env, NoUrandom)
    \/ Deactivate(1)
    \/ \E duration \in {0, 1} : pauses[1] = <<>> /\ Pause(1, duration)
    \/ Resume(1)
    \/ \E size \in Sizes, stack \in StacksWalker,
          nd \in MallocInputs({0, 1}, {0}) : Malloc(1, size, stack, nd)
    \/ \E pointer \in heap : Free(1, pointer, NoClobber)

SpecWalker ==
    Init /\ [][NextWalker]_vars

\* The walks of one malloc: one thread under the step strategy with delay
\* 1, silent or printing traces, with and without self-overthrow, allocates
\* from plain and from white-listed call sites, within a pause or not,
\* while the walker makes an allocation of its own or none.
EnvsTrace ==
    {Env(STRATEGY_STEP, 1, Unset, Unset, so, v) :
        so \in BOOLEAN,
        v \in {Unset, VERBOSE_FAILED_ALLOCATIONS, VERBOSE_ALL_ALLOCATIONS}}

NextTrace ==
    \/ \E env \in EnvsTrace : Activate(1, env, NoUrandom)
    \/ Deactivate(1)
    \/ \E duration \in {0, 1} : pauses[1] = <<>> /\ Pause(1, duration)
    \/ Resume(1)
    \/ \E stack \in StacksErrno, nd \in MallocInputs({0, 1}, {0}) :
          Malloc(1, 1, stack, nd)
    \/ \E pointer \in heap : Free(1, pointer, NoClobber)

SpecTrace ==
    Init /\ [][NextTrace]_vars

\* Two threads under the step strategy with delay 0: each opens one pause
\* level at a time, resumes, allocates and frees, activated or not.
NextThreads ==
    \/ \E env \in EnvsPause : Activate(1, env, NoUrandom)
    \/ \E t \in Threads : Deactivate(t)
    \/ \E t \in Threads, duration \in {0, 1} :
          pauses[t] = <<>> /\ Pause(t, duration)
    \/ \E t \in Threads : Resume(t)
    \/ \E t \in Threads, nd \in ThreadInputs :
          Malloc(t, 1, StackPlain, nd)
    \/ \E t \in Threads, pointer \in heap : Free(t, pointer, NoClobber)

SpecThreads ==
    Init /\ [][NextThreads]_vars

\* ------------------------------------------------------------------------
\* The step and pulse patterns
\* ------------------------------------------------------------------------
\* The call that has just returned is an eligible malloc decided by the
\* strategy.
EligibleMalloc ==
    /\ last.op = "malloc"
    /\ last.act
    /\ ~last.passed
    /\ last.elig

\* The call that has just returned got what the native allocator had.
Succeeded ==
    last.ret = last.native

\* C1 as stated: with the step strategy and delay D the k-th eligible malloc
\* after the activation succeeds if and only if k <= D, k counting the
\* eligible mallocs only.
C1_StepByEligibleCount ==
    (EligibleMalloc /\ g_strategy = STRATEGY_STEP
        /\ last.native # NULL /\ last.reg_ok)
        => (Succeeded <=> since.elig <= g_delay)

\* C1: with the step strategy and delay D an eligible malloc succeeds if and
\* only if it is among the first D mallocs the activated library has seen
\* since the activation outside a pause, zero-size and white-listed mallocs
\* counted; a malloc that does not succeed returns NULL with errno ENOMEM.
C1_StepBySequence ==
    (EligibleMalloc /\ g_strategy = STRATEGY_STEP
        /\ last.native # NULL /\ last.reg_ok)
        => /\ Succeeded <=> since.calls <= g_delay
           /\ ~Succeeded => last.ret = NULL /\ errno[last.t] = ENOMEM

\* An eligible malloc has failed by the step strategy after a zero-size or
\* white-listed malloc took one of the D first sequence numbers.
C1_Witness ==
    /\ EligibleMalloc /\ g_strategy = STRATEGY_STEP
    /\ last.native # NULL /\ last.reg_ok
    /\ since.calls = g_delay + 1
    /\ since.elig <= g_delay
    /\ last.ret = NULL

\* C2: with the pulse strategy, delay D and duration K, the k-th malloc
\* after the activation fails if and only if D < k <= D + K, all the mallocs
\* since the activation being eligible: D successes, K failures, then
\* successes.
C2_PulsePattern ==
    (EligibleMalloc /\ g_strategy = STRATEGY_PULSE
        /\ since.calls = since.elig
        /\ last.native # NULL /\ last.reg_ok)
        => (~Succeeded <=>
                (g_delay < since.elig /\ since.elig <= g_delay + g_duration))

\* ------------------------------------------------------------------------
\* The none strategy, the leak count, deactivation
\* ------------------------------------------------------------------------
\* The call that has just returned asked the activated library for a block.
AskedForBlock ==
    /\ last.act
    /\ \/ last.op = "malloc"
       \/ last.op = "realloc" /\ (last.ptr = NULL \/ last.size # 0)

\* C3: while activated with the none strategy and self-overthrow off, a
\* malloc or realloc that asks for a block returns what the native allocator
\* returned: NULL only when the native allocator had no memory for the block
\* or for its registry entry.
C3_NoneNeverFails ==
    (AskedForBlock /\ g_strategy = STRATEGY_NONE /\ ~g_self_overthrow)
        => /\ last.reg_ok => last.ret = last.native
           /\ last.ret # last.native => last.ret = NULL

\* Under the none strategy a third eligible malloc in a row got its block.
C3_Witness ==
    /\ AskedForBlock /\ g_strategy = STRATEGY_NONE /\ ~g_self_overthrow
    /\ last.op = "malloc" /\ last.elig
    /\ g_malloc_counter = 3
    /\ last.ret # NULL /\ last.ret \in tracked

\* C4: deactivateOverthrower returns the number of blocks that tracked
\* allocations have returned and that were neither freed nor replaced by
\* realloc before the call.
C4_LeakCount ==
    [][last'.op = "deactivate" => last'.ret = Cardinality(tracked)]_vars

\* A deactivation has reported two live blocks.
C4_Witness ==
    /\ last.op = "deactivate"
    /\ last.act
    /\ last.ret = 2

\* C5: after deactivateOverthrower has returned the library is inactive and
\* the registry is empty, and a deactivation of the inactive library
\* returns 0.
C5_Deactivated ==
    /\ last.op = "deactivate"
         => /\ ~g_activated
            /\ RegistryKeys(Cur) = {}
            /\ ~last.act => last.ret = 0
    /\ ~g_activated => RegistryKeys(Cur) = {}

\* A second deactivation in a row has returned 0 with a block of the first
\* activation still live.
C5_Witness ==
    /\ last.op = "deactivate"
    /\ ~last.act
    /\ last.ret = 0
    /\ ~g_activated
    /\ g_malloc_counter > 0
    /\ heap # {}

\* ------------------------------------------------------------------------
\* errno
\* ------------------------------------------------------------------------
\* C6: a malloc, or a realloc with a size other than 0, called while
\* activated leaves ENOMEM in errno when it returns NULL, and errno as it was
\* on entry when it returns a block.
C6_ErrnoOfAllocation ==
    (last.act /\ (last.op = "malloc" \/ (last.op = "realloc" /\ last.size # 0)))
        => IF last.ret = NULL
           THEN errno[last.t] = ENOMEM
           ELSE errno[last.t] = last.e0

\* C7: free leaves errno as it was on entry, for a NULL, a tracked and an
\* untracked pointer, activated or not.
C7_FreeKeepsErrno ==
    last.op = "free" => errno[last.t] = last.e0

\* An activated free of a block has returned with errno at the value the
\* host had assigned.
C7_Witness ==
    /\ last.op = "free"
    /\ last.act
    /\ last.ptr # NULL
    /\ last.e0 = 100500
    /\ errno[last.t] = 100500

\* ------------------------------------------------------------------------
\* realloc
\* ------------------------------------------------------------------------
\* C8: in every state realloc(NULL, n) returns what malloc(n) returns and
\* leaves the state malloc(n) leaves, and realloc(p, 0) with p not NULL
\* returns NULL and leaves the state free(p) leaves.
C8_ReallocDegenerate ==
    \A t \in Threads, stack \in StacksMain, nd \in MallocInputs({0}, {0}),
       clob \in Clobbers :
        /\ \A size \in Sizes :
              LET r == my_realloc(Cur, t, NULL, size, stack, nd, clob)
                  m == my_malloc(Cur, t, size, stack, nd)
              IN  r.ret = m.ret /\ r.S = m.S
        /\ \A pointer \in heap :
              LET r == my_realloc(Cur, t, pointer, 0, stack, nd, clob)
              IN  r.ret = NULL /\ r.S = my_free(Cur, t, pointer, clob)

\* A realloc(NULL, 0) of the activated library has taken a sequence number,
\* as malloc(0) does.
C8_Witness ==
    /\ last.op = "realloc"
    /\ last.act
    /\ last.ptr = NULL
    /\ last.size = 0
    /\ last.seq >= 0
    /\ g_malloc_counter = last.seq + 1

\* C9: a realloc of a tracked pointer with a size other than 0 that returns
\* NULL leaves the old block allocated and its registry entry as it was, and
\* a free of a pointer while activated leaves no registry entry for it.
C9_FailedReallocKeepsBlock ==
    [][/\ (/\ last'.op = "realloc"
           /\ last'.act
           /\ last'.ptr \in tracked
           /\ last'.size # 0
           /\ last'.ret = NULL)
          => /\ last'.ptr \in heap'
             /\ g_allocated'[last'.ptr] = g_allocated[last'.ptr]
             /\ g_allocated[last'.ptr] # NoEntry
             /\ tracked' = tracked
       /\ (last'.op = "free" /\ last'.act /\ last'.ptr # NULL)
          => /\ g_allocated'[last'.ptr] = NoEntry
             /\ last'.ptr \notin heap']_vars

\* A realloc of a tracked pointer has been failed by the strategy, the
\* native allocator having a block to give.
C9_Witness ==
    /\ last.op = "realloc"
    /\ last.act
    /\ last.ptr \in tracked
    /\ last.size # 0
    /\ last.ret = NULL
    /\ last.native # NULL
    /\ last.reg_ok

\* ------------------------------------------------------------------------
\* Pauses
\* ------------------------------------------------------------------------
\* The pause level at which the thread of the last call is.
TopPause ==
    pauses[last.t][Len(pauses[last.t])]

\* C10: of the mallocs a thread makes while activated at a pause level
\* opened by pauseOverthrower(N) with N > 0, the first N get what the native
\* allocator has and take no sequence number, and the later ones are decided
\* by the strategy: each takes a sequence number, and under the step
\* strategy with delay 0 an eligible one returns NULL with errno ENOMEM.
C10_FinitePause ==
    (last.op = "malloc" /\ last.act /\ pauses[last.t] # <<>> /\ TopPause.n > 0)
        => IF TopPause.k <= TopPause.n
           THEN last.ret = last.native /\ last.seq = -1
           ELSE /\ last.seq >= 0
                /\ (g_strategy = STRATEGY_STEP /\ g_delay = 0 /\ last.elig)
                      => last.ret = NULL /\ errno[last.t] = ENOMEM

\* After pauseOverthrower(2) the thread's third malloc has been failed by
\* the step strategy, the native allocator having a block to give.
C10_Witness ==
    /\ last.op = "malloc" /\ last.act /\ last.elig
    /\ pauses[last.t] # <<>>
    /\ TopPause.n = 2
    /\ TopPause.k = 3
    /\ last.native # NULL
    /\ last.ret = NULL

\* C11: of the mallocs a thread makes while activated at a pause level
\* opened by pauseOverthrower(0), every one gets what the native allocator
\* has and takes no sequence number, however many were made at that level
\* before it.
C11_IndefinitePause ==
    (last.op = "malloc" /\ last.act /\ pauses[last.t] # <<>> /\ TopPause.n = 0)
        => last.ret = last.native /\ last.seq = -1

\* C12: no call made by one thread changes the pause depth or the pause
\* counters of another thread, and whether a malloc is passed through
\* follows from the calling thread's own pauses: with no pause level of its
\* own open the malloc takes a sequence number and, under the step strategy
\* with delay 0, an eligible one returns NULL with errno ENOMEM, whatever
\* pause the other thread is in; within its own indefinite pause it gets
\* what the native allocator has.
C12_PauseThreadLocal ==
    [][/\ \A b \in Threads : b # last'.t => g_state'[b] = g_state[b]
       /\ (last'.op = "malloc" /\ last'.act /\ pauses[last'.t] = <<>>)
             => /\ last'.seq >= 0
                /\ (g_strategy = STRATEGY_STEP /\ g_delay = 0 /\ last'.elig)
                      => last'.ret = NULL /\ errno'[last'.t] = ENOMEM
       /\ (/\ last'.op = "malloc" /\ last'.act /\ pauses[last'.t] # <<>>
           /\ pauses[last'.t][Len(pauses[last'.t])].n = 0)
             => last'.ret = last'.native /\ last'.seq = -1]_vars

\* With thread 1 paused indefinitely, a malloc of thread 2, which has no
\* pause of its own, has been failed by the step strategy.
C12_Witness ==
    /\ last.op = "malloc" /\ last.t = 2 /\ last.act /\ last.elig
    /\ last.native # NULL
    /\ last.ret = NULL
    /\ pauses[2] = <<>>
    /\ pauses[1] # <<>>
    /\ pauses[1][1].n = 0
    /\ g_state[1].depth = 1
    /\ g_state[1].paused[1] > MaxPauseArg

\* ------------------------------------------------------------------------
\* The inactive library
\* ------------------------------------------------------------------------
\* The registry, the sequence counter and every thread's pause depth and
\* counters are in S what they are now.
Kept(S) ==
    /\ S.g_allocated = g_allocated
    /\ S.g_malloc_counter = g_malloc_counter
    /\ S.g_state = g_state

\* C14: while the library is not activated, a malloc returns what the
\* native malloc returns and leaves what the native malloc leaves, a free
\* of a block leaves what the native free leaves, and a realloc is the one
\* or the other or the native realloc; none of them changes the registry,
\* the sequence counter or a pause depth or counter of any thread.
C14_InactivePassThrough ==
    ~g_activated =>
        \A t \in Threads, size \in Sizes, stack \in StacksMain,
           nd \in MallocInputs({0}, {0}), clob \in Clobbers,
           pointer \in heap \cup {NULL} :
            LET m == my_malloc(Cur, t, size, stack, nd)
                f == my_free(Cur, t, pointer, clob)
                r == my_realloc(Cur, t, pointer, size, stack, nd, clob)
                nm == native_malloc(initialize(Cur), t, nd.native)
                nf == IF pointer = NULL THEN Cur ELSE native_free(Cur, pointer)
                nr == native_realloc(Cur, t, pointer, nd.native)
            IN  /\ m.ret = nm.ret /\ m.S = nm.S /\ Kept(m.S)
                /\ f = nf /\ Kept(f)
                /\ Kept(r.S)
                /\ IF pointer = NULL THEN r.ret = nm.ret /\ r.S = nm.S
                   ELSE IF size = 0 THEN r.ret = NULL /\ r.S = nf
                   ELSE r.ret = nr.ret /\ r.S = nr.S

\* After a deactivation the thread has paused and has got a block from a
\* malloc that left the pause counter and the sequence counter of the
\* earlier activation as they were.
C14_Witness ==
    /\ last.op = "malloc"
    /\ ~last.act
    /\ ~g_activated
    /\ last.ret # NULL
    /\ last.ret \in heap
    /\ g_state[1].depth = 1
    /\ PausedNow(1) = 1
    /\ g_malloc_counter > 0
    /\ RegistryKeys(Cur) = {}

\* ------------------------------------------------------------------------
\* The white list, repeated activations, the decision table
\* ------------------------------------------------------------------------
\* The call that has just returned is a malloc of a size other than 0 from
\* a call site the classifier white-lists, made while activated and outside
\* a pause.
WhiteListedMalloc ==
    /\ last.op = "malloc"
    /\ last.act
    /\ ~last.passed
    /\ last.size > 0
    /\ ~last.elig

\* C15: under every strategy a malloc from a white-listed call site gets
\* what the native allocator has.
C15_WhiteListNeverFailed ==
    WhiteListedMalloc => last.ret = last.native /\ last.ret # NULL

\* The exception-object allocator has got its block under the random
\* strategy with duty cycle 1, which fails every eligible malloc.
C15_Witness ==
    /\ WhiteListedMalloc
    /\ g_strategy = STRATEGY_RANDOM
    /\ g_duty_cycle = 1
    /\ last.seq >= 0
    /\ last.ret # NULL
    /\ last.ret \in heap

\* C18: activateOverthrower leaves the sequence counter at 0, whatever it
\* was; the sequence number of a malloc is the number of mallocs the
\* activated library has seen since the last activation, and under the step
\* and pulse strategies it alone decides an eligible malloc, whatever was
\* allocated before that activation.
C18_ActivationRestarts ==
    /\ last.op = "activate" => g_activated /\ g_malloc_counter = 0
    /\ (last.op = "malloc" /\ last.act) => last.seq = since.calls - 1
    /\ (EligibleMalloc /\ g_strategy = STRATEGY_STEP)
          => (Succeeded <=> since.calls <= g_delay)
    /\ (EligibleMalloc /\ g_strategy = STRATEGY_PULSE)
          => (Succeeded <=> \/ since.calls <= g_delay + 1
                            \/ since.calls > g_delay + g_duration + 1)

\* The first malloc after an activation has succeeded under the step
\* strategy with delay 1, the sequence counter having been at MaxCounter
\* when activateOverthrower was called.
C18_Witness ==
    /\ EligibleMalloc
    /\ g_strategy = STRATEGY_STEP
    /\ g_delay = 1
    /\ since.before = MaxCounter
    /\ since.calls = 1
    /\ last.seq = 0
    /\ Succeeded

\* The table of the strategies: whether the allocation with the 0-based
\* sequence number n fails, r being the random number drawn for it.
ReferenceTable(strategy, delay, duration, duty_cycle, n, r) ==
    CASE strategy = STRATEGY_STEP -> n >= delay
      [] strategy = STRATEGY_PULSE -> delay < n /\ n <= delay + duration
      [] strategy = STRATEGY_NONE -> FALSE
      [] strategy = STRATEGY_RANDOM -> r % duty_cycle = 0

\* Configurations and sequence numbers at and around the edges of the
\* table.
TableDelays ==
    {MIN_DELAY, MaxDelay, MAX_DELAY}
TableDurations ==
    {MIN_DURATION, MAX_DURATION}
TableDutyCycles ==
    {MIN_DUTY_CYCLE, MIN_DUTY_CYCLE + 1}
TableNumbers(delay, duration) ==
    {0, delay, delay + 1, delay + duration, delay + duration + 1, UINT_MAX}

C21_DeactivateClearsPauses ==
    /\ last.op = "deactivate"
          => ~g_activated /\ g_state[last.t] = ZeroState
    /\ (last.op = "malloc" /\ last.act /\ last.elig /\ pauses[1] = <<>>)
          => ~last.passed /\ last.path = "failed" /\ last.ret = NULL

\* pauseOverthrower(0) was not resumed before the deactivation, which
\* found its counter untouched, and the malloc after the next activation
\* was failed though the native allocator had a block.
C21_Witness ==
    /\ last.op = "malloc"
    /\ last.act
    /\ last.size > 0
    /\ last.native # NULL
    /\ since.dropped = UINT_MAX
    /\ pauses[1] = <<>>
    /\ last.ret = NULL

\* ------------------------------------------------------------------------
\* Concurrent allocations
\* ------------------------------------------------------------------------
\* C17: when no malloc is in flight, the N eligible mallocs the threads have
\* made since the activation, in whatever order they took their sequence
\* numbers and returned, have failed N - D times under step with delay D
\* (none while N <= D) and, once N > D + K, K times under pulse with delay D
\* and duration K.
C17_FailureTotals ==
    (/\ g_activated
     /\ \A t \in Threads : frame[t] = NoFrame
     /\ since.elig = since.calls)
        => /\ g_strategy = STRATEGY_STEP
                => since.failed = IF since.calls > g_delay
                                  THEN since.calls - g_delay ELSE 0
           /\ (g_strategy = STRATEGY_PULSE
                 /\ since.calls > g_delay + g_duration)
                => since.failed = g_duration

\* Three mallocs were made under step with delay 1, and the one that took
\* sequence number 0 was the last to return, by thread 2: the other thread
\* took its numbers later and was failed earlier.
C17_Witness ==
    /\ g_activated
    /\ \A t \in Threads : frame[t] = NoFrame
    /\ g_strategy = STRATEGY_STEP
    /\ g_delay = 1
    /\ since.calls = 3
    /\ since.failed = 2
    /\ last.op = "malloc"
    /\ last.t = 2
    /\ last.seq = 0
    /\ last.ret # NULL

\* The pulse has passed, the last of three mallocs to return being the
\* one that took the first number of the pulse.
PulsePassed ==
    /\ g_activated
    /\ \A t \in Threads : frame[t] = NoFrame
    /\ g_strategy = STRATEGY_PULSE
    /\ g_delay = 0
    /\ g_duration = 2
    /\ since.calls = 3
    /\ since.failed = 2
    /\ last.seq = 1
    /\ last.ret = NULL

\* ------------------------------------------------------------------------
\* The configuration
\* ------------------------------------------------------------------------
\* The text is a number within min..max.
Given(text, min, max) ==
    text >= min /\ text <= max

\* The configuration S holds is within the ranges.
ConfigInRange(S) ==
    /\ S.g_strategy \in STRATEGY_RANDOM..STRATEGY_NONE
    /\ S.g_duty_cycle \in MIN_DUTY_CYCLE..MAX_DUTY_CYCLE
    /\ S.g_delay \in MIN_DELAY..MAX_DELAY
    /\ S.g_duration \in MIN_DURATION..MAX_DURATION
    /\ S.g_verbose_mode \in VERBOSE_NO..VERBOSE_ALL_ALLOCATIONS

\* C16: the configuration is within the ranges in every state, and an
\* activation from any state with any environment leaves it there; the
\* strategy, the verbose mode and the parameters the chosen strategy reads
\* (seed and duty cycle for random, delay for step and pulse, duration for
\* pulse) are the numbers given when those are within the ranges; a
\* strategy not given or not valid becomes one of 0..2, never none, a delay
\* not given or not valid one of 0..1000, a verbose mode not given or not
\* valid 0.
C16_ConfigInRange ==
    /\ ConfigInRange(Cur)
    /\ \A env \in EnvsConfig, u \in Urandoms :
          LET A == activateOverthrower(Cur, 1, env, u)
              reads_delay == A.g_strategy \in {STRATEGY_STEP, STRATEGY_PULSE}
          IN  /\ A.g_activated
              /\ ConfigInRange(A)
              /\ IF Given(env.strategy, STRATEGY_RANDOM, STRATEGY_NONE)
                 THEN A.g_strategy = env.strategy
                 ELSE A.g_strategy \in STRATEGY_RANDOM..STRATEGY_PULSE
              /\ IF Given(env.verbose, VERBOSE_NO, VERBOSE_ALL_ALLOCATIONS)
                 THEN A.g_verbose_mode = env.verbose
                 ELSE A.g_verbose_mode = VERBOSE_NO
              /\ A.g_strategy = STRATEGY_RANDOM
                    => /\ Given(env.duty_cycle, MIN_DUTY_CYCLE, MAX_DUTY_CYCLE)
                            => A.g_duty_cycle = env.duty_cycle
                       /\ Given(env.seed, 0, UINT_MAX)
                            => A.g_seed = env.seed
              /\ reads_delay
                    => IF Given(env.delay, MIN_DELAY, MAX_DELAY)
                       THEN A.g_delay = env.delay
                       ELSE A.g_delay \in MIN_DELAY..MAX_RANDOM_DELAY
              /\ (A.g_strategy = STRATEGY_PULSE
                     /\ Given(env.duration, MIN_DURATION, MAX_DURATION))
                    => A.g_duration = env.duration

\* An activation has fallen back to the pulse strategy (the number read
\* from /dev/urandom was 2) and to the delay 2 and the duration 3 computed
\* from that number.
C16_Witness ==
    /\ last.op = "activate"
    /\ g_activated
    /\ g_strategy = STRATEGY_PULSE
    /\ g_delay = STRATEGY_PULSE
    /\ g_duration = STRATEGY_PULSE + MIN_DURATION

\* ------------------------------------------------------------------------
\* Nested pauses
\* ------------------------------------------------------------------------
\* The record of the pause that the resumeOverthrower just returned closes.
Closed ==
    pauses[last'.t][Len(pauses[last'.t])]

\* C13 as stated: at the resumeOverthrower that closes a pauseOverthrower,
\* the pause and resume calls between them being properly nested, the
\* thread's pause depth and the counter of the level its mallocs looked at
\* before the pause are what they were before the pause, also where the
\* nesting goes beyond MAX_PAUSE_DEPTH.
C13_NestingBalances ==
    [][(last'.op = "resume" /\ pauses[last'.t] # <<>>)
          => /\ g_state'[last'.t].depth = Closed.depth
             /\ g_state'[last'.t].paused[Closed.depth] = Closed.paused]_vars

\* C13: the same for the pauses during which pauseOverthrower is never
\* called at depth MAX_PAUSE_DEPTH.
C13_NestingBalancesBelowOverflow ==
    [][(last'.op = "resume" /\ pauses[last'.t] # <<>>
           /\ ~Closed.over)
          => /\ g_state'[last'.t].depth = Closed.depth
             /\ g_state'[last'.t].paused[Closed.depth] = Closed.paused]_vars

\* A pause opened at depth MAX_PAUSE_DEPTH - 1, within a pause whose one
\* allocation was used up, has been closed after its own allocation was
\* made: the thread is back at that depth with the counter at 0.
C13_Witness ==
    /\ last.op = "resume"
    /\ g_activated
    /\ g_state[1].depth = MAX_PAUSE_DEPTH - 1
    /\ g_state[1].paused[MAX_PAUSE_DEPTH - 1] = 0
    /\ g_state[1].paused[MAX_PAUSE_DEPTH] = 0
    /\ Len(pauses[1]) = MAX_PAUSE_DEPTH - 1
    /\ ~pauses[1][MAX_PAUSE_DEPTH - 1].over
    /\ pauses[1][MAX_PAUSE_DEPTH - 1].k = 1

\* The thread of the call that has just returned, and the pause depth it
\* was at when it made the call.
Caller ==
    last'.t
DepthBefore ==
    g_state[Caller].depth

\* A malloc, or the mallocs of fragileCode, made while activated.
Allocated ==
    last'.op \in {"malloc", "fragileCode"} /\ last'.act

\* What C22 says of an allocation: it is passed through exactly if the
\* counter in the slot of the thread's depth is not 0, whatever the other
\* slots hold, and is then failed by the step strategy with delay 0; and
\* it leaves the depth and every other slot as they were.
InnermostGoverns ==
    Allocated
        => /\ last'.op = "malloc"
                 => /\ last'.seq = -1
                        <=> g_state[Caller].paused[DepthBefore] # 0
                    /\ (last'.seq # -1 /\ last'.elig)
                        => last'.path = "failed" /\ last'.ret = NULL
           /\ g_state'[Caller].depth = DepthBefore
           /\ \A i \in 0..MAX_PAUSE_DEPTH :
                 i # DepthBefore
                    => g_state'[Caller].paused[i] = g_state[Caller].paused[i]

\* C22 as stated: the innermost level alone governs an allocation, and the
\* resumeOverthrower that closes a pause leaves the thread at the level
\* that enclosed it with the count that level had when the pause was
\* called, also where the pause was called at depth MAX_PAUSE_DEPTH.
C22_InnermostGoverns ==
    [][/\ InnermostGoverns
       /\ (last'.op = "resume" /\ pauses[Caller] # <<>>)
             => /\ g_state'[Caller].depth = Closed.depth
                /\ g_state'[Caller].paused[Closed.depth] = Closed.paused]_vars

\* C22: the same, the enclosing level's count being kept where no
\* pauseOverthrower was called at depth MAX_PAUSE_DEPTH while the pause
\* was open.
C22_InnermostGovernsBelowOverflow ==
    [][/\ InnermostGoverns
       /\ (last'.op = "resume" /\ pauses[Caller] # <<>> /\ ~Closed.over)
             => /\ g_state'[Caller].depth = Closed.depth
                /\ g_state'[Caller].paused[Closed.depth] = Closed.paused]_vars

\* At depth MAX_PAUSE_DEPTH, reached without overflow, the inner pause
\* has run out while the enclosing one has its one allocation left, and
\* the malloc made there was failed.
C22_Witness ==
    /\ last.op = "malloc"
    /\ last.act
    /\ g_state[1].depth = MAX_PAUSE_DEPTH
    /\ g_state[1].paused[MAX_PAUSE_DEPTH] = 0
    /\ g_state[1].paused[MAX_PAUSE_DEPTH - 1] = 1
    /\ Len(pauses[1]) = MAX_PAUSE_DEPTH
    /\ pauses[1][MAX_PAUSE_DEPTH - 1].k = 0
    /\ ~pauses[1][MAX_PAUSE_DEPTH].over
    /\ pauses[1][MAX_PAUSE_DEPTH].k = 2
    /\ last.native # NULL
    /\ last.ret = NULL

\* C20: every thread's pause depth is within 0..MAX_PAUSE_DEPTH; a
\* pauseOverthrower at depth MAX_PAUSE_DEPTH leaves the depth and puts its
\* duration in the top slot, the other slots left as they were, and a
\* resumeOverthrower at depth 0 changes nothing.
C20_DepthInRange ==
    [][/\ \A t \in Threads : g_state'[t].depth \in 0..MAX_PAUSE_DEPTH
       /\ (last'.op = "pause" /\ g_state[last'.t].depth = MAX_PAUSE_DEPTH)
             => g_state' = [g_state EXCEPT
                    ![last'.t].paused[MAX_PAUSE_DEPTH] =
                        IF last'.size = 0 THEN UINT_MAX ELSE last'.size]
       /\ (last'.op = "resume" /\ g_state[last'.t].depth = 0)
             => g_state' = g_state]_vars

\* A pauseOverthrower(2) at depth MAX_PAUSE_DEPTH has put 2 in the top
\* slot, whose counter a malloc had counted down to 0.
C20_Witness ==
    /\ last.op = "pause"
    /\ last.size = MaxPauseArg
    /\ g_state[1].depth = MAX_PAUSE_DEPTH
    /\ g_state[1].paused[MAX_PAUSE_DEPTH] = MaxPauseArg
    /\ Len(pauses[1]) > MAX_PAUSE_DEPTH
    /\ pauses[1][Len(pauses[1])].paused = 0

\* What fragileCode leaves is what its loop computes, one call at a time.
PausedRunAgrees ==
    \A iterations \in 1..MaxPauseArg, nd \in MallocInputs({0}, {0}) :
        (/\ g_activated /\ ~g_self_overthrow /\ nd.native # NULL
         /\ PausedNow(1) >= iterations)
            => LET f == fragileCode(Cur, 1, iterations, nd)
               IN  ~f.crashed /\ f.S = pausedRun(Cur, 1, iterations)

\* ------------------------------------------------------------------------
\* The sequence counter
\* ------------------------------------------------------------------------
\* What one call does to the sequence counter.
CounterStep ==
    /\ (last'.op = "malloc" /\ last'.act) =>
          /\ g_malloc_counter' =
                g_malloc_counter + (IF last'.passed THEN 0 ELSE 1)
          /\ last'.seq = (IF last'.passed THEN -1 ELSE g_malloc_counter)
          /\ last'.walk > 0 => last'.inner.seq = -1 /\ last'.inner.kept
    /\ last'.op = "free" => g_malloc_counter' = g_malloc_counter

\* C23: while activated every malloc that the calling thread's pause
\* counter does not pass through takes one sequence number, the value of
\* the counter, and raises the counter by one, whether it is white-listed,
\* of size zero, failed or served; a malloc passed through by a pause, a
\* malloc made by the stack walker and free leave the counter as it is.
C23_CounterPerDecidedMalloc ==
    [][CounterStep]_vars

\* A white-listed malloc during which the walker allocated took sequence
\* number 1, the one the step strategy with delay 1 fails, and was served;
\* the counter is at 2.
C23_Witness ==
    /\ last.op = "malloc" /\ last.act /\ ~last.passed
    /\ last.size > 0 /\ ~last.elig
    /\ last.walk > 0 /\ last.inner.ret # NULL
    /\ g_strategy = STRATEGY_STEP /\ g_delay = 1
    /\ last.seq = 1 /\ g_malloc_counter = 2
    /\ last.ret # NULL

\* ------------------------------------------------------------------------
\* What malloc registers
\* ------------------------------------------------------------------------
\* The step adds an entry to the registry.
EntryAdded ==
    \E p \in Ptrs : g_allocated[p] = NoEntry /\ g_allocated'[p] # NoEntry

\* The strategy fails the sequence number the counter is at (the random
\* strategy is not among those of the specification).
TimeToFail ==
    isTimeToFail(Cur, g_malloc_counter, 1)

\* The conditions C24 names for the malloc that has returned.
Registering ==
    /\ last'.act /\ ~last'.passed
    /\ last'.elig /\ ~last'.ignore
    /\ ~TimeToFail
    /\ last'.native # NULL

\* The entry a malloc adds is the only change of the registry: it maps the
\* pointer returned to the call's sequence number and size.
RegisteredAsReturned ==
    /\ last'.ret # NULL
    /\ g_allocated[last'.ret] = NoEntry
    /\ g_allocated' = [g_allocated EXCEPT
                          ![last'.ret] = Info(g_malloc_counter, last'.size)]

\* C24 as stated: a malloc adds a registry entry exactly if it is called
\* while activated, is not passed through by a pause, is not white-listed,
\* has size > 0, is not ignore-listed, is not failed by the strategy and
\* the native allocator has a block for it; the entry maps the pointer
\* returned to the call's sequence number and size.
C24_RegistersExactlyIf ==
    [][last'.op = "malloc" =>
          /\ EntryAdded <=> Registering
          /\ EntryAdded => RegisteredAsReturned
          /\ ~EntryAdded => g_allocated' = g_allocated]_vars

\* C24: the same, where the registry gets the storage for the entry.
C24_RegistersExactlyIfStored ==
    [][last'.op = "malloc" =>
          /\ EntryAdded <=> (Registering /\ last'.reg_ok)
          /\ EntryAdded => RegisteredAsReturned
          /\ ~EntryAdded => g_allocated' = g_allocated]_vars

\* A tracked malloc under the strategy that fails nothing took sequence
\* number 1 while the walker allocated, and the registry maps the pointer
\* it returned to that number and its size.
C24_Witness ==
    /\ last.op = "malloc" /\ last.act /\ ~last.passed
    /\ last.elig /\ ~last.ignore /\ last.reg_ok /\ last.walk > 0
    /\ g_strategy = STRATEGY_NONE
    /\ last.ret # NULL /\ last.seq = 1
    /\ g_allocated[last.ret] = Info(1, last.size)

\* ------------------------------------------------------------------------
\* What free removes
\* ------------------------------------------------------------------------
\* What free(p) does to the registry, to errno and to the number of blocks
\* deactivateOverthrower would report: the blocks with an entry are those
\* tracked mallocs have returned since the activation.
FreeStep ==
    (last'.op = "free" /\ last'.act /\ last'.ptr # NULL) =>
        /\ g_allocated' = [g_allocated EXCEPT ![last'.ptr] = NoEntry]
        /\ errno' = errno
        /\ last'.ptr \in tracked <=> g_allocated[last'.ptr] # NoEntry
        /\ last'.ptr \notin tracked =>
              /\ g_allocated' = g_allocated
              /\ deactivateOverthrower(Cur, 1).ret = Cardinality(tracked')

\* C25: free(p) with p not NULL, called while activated by any thread in
\* any pause state, removes the registry entry of p if there is one and
\* nothing else, and leaves the registry and errno as they are if there is
\* none.
C25_FreeRemovesEntry ==
    [][FreeStep]_vars

\* Thread 2, within an indefinite pause, has freed a block that had an
\* entry, got by thread 1 from a tracked malloc: the registry is empty, and
\* a block without an entry is still allocated.
C25_Witness ==
    /\ last.op = "free" /\ last.act /\ last.t = 2
    /\ g_state[2].depth = 1 /\ PausedNow(2) = UINT_MAX
    /\ g_state[1].depth = 0
    /\ last.ptr # NULL /\ last.path = "erased"
    /\ RegistryKeys(Cur) = {} /\ heap # {}

\* ------------------------------------------------------------------------
\* realloc of a block the registry does not know
\* ------------------------------------------------------------------------
\* What realloc(p, n) does when p is not NULL, n is not 0 and the registry
\* has no entry for p: it returns what the native allocator answers, and
\* the sequence counter, the pause counters and the registry stay.
UntrackedRealloc ==
    (/\ last'.op = "realloc" /\ last'.ptr # NULL /\ last'.size > 0
     /\ g_allocated[last'.ptr] = NoEntry) =>
        /\ last'.ret = last'.native
        /\ last'.seq = -1
        /\ g_malloc_counter' = g_malloc_counter
        /\ g_state' = g_state
        /\ g_allocated' = g_allocated
        /\ heap' = IF last'.ret = NULL THEN heap
                   ELSE (heap \ {last'.ptr}) \cup {last'.ret}

\* C26: realloc(p, n) with p not NULL, n > 0 and no registry entry for p is
\* the native realloc: no strategy fails it, it takes no sequence number
\* and no pause count, and its result is not registered.
C26_UntrackedReallocIsNative ==
    [][UntrackedRealloc]_vars

\* Under the step strategy, at a sequence number the strategy fails and
\* outside any pause, a realloc of a block without an entry has returned a
\* block; the counter is where it was and the registry is empty.
C26_Witness ==
    /\ last.op = "realloc" /\ last.act /\ last.ptr # NULL /\ last.size > 0
    /\ g_strategy = STRATEGY_STEP /\ TimeToFail
    /\ g_state[1].depth = 0
    /\ last.seq = -1 /\ last.ret # NULL
    /\ RegistryKeys(Cur) = {}

\* ------------------------------------------------------------------------
\* realloc of a tracked block
\* ------------------------------------------------------------------------
\* A realloc(p, n) of a thread that is not within a pause, p having a
\* registry entry and n not being 0.
TrackedRealloc ==
    /\ last'.op = "realloc" /\ last'.ptr # NULL /\ last'.size > 0
    /\ g_allocated[last'.ptr] # NoEntry
    /\ ~last'.passed

\* It takes one sequence number and is failed where the strategy fails a
\* malloc.
ThroughMalloc ==
    /\ last'.seq = g_malloc_counter
    /\ g_malloc_counter' = g_malloc_counter + 1
    /\ (last'.elig /\ TimeToFail) => last'.ret = NULL

\* The entry of p is gone, the block returned has the one entry added, with
\* the call's sequence number and size n, and the registry has as many
\* entries as before.
EntryHandedOver ==
    /\ g_allocated' = [g_allocated EXCEPT
                          ![last'.ptr] = NoEntry,
                          ![last'.ret] = Info(g_malloc_counter, last'.size)]
    /\ Cardinality({p \in Ptrs : g_allocated'[p] # NoEntry}) =
          Cardinality(RegistryKeys(Cur))

\* C27 as stated: a successful realloc of a tracked pointer by a thread
\* that is not paused goes through malloc and hands the registry entry
\* over to the block it returns.
C27_ReallocKeepsEntryCount ==
    [][TrackedRealloc =>
          /\ ThroughMalloc
          /\ last'.ret # NULL => EntryHandedOver]_vars

\* C27: the same for a realloc called from a call site that is neither
\* white-listed nor ignore-listed.
C27_ReallocKeepsEntryCountWhereTracked ==
    [][TrackedRealloc =>
          /\ ThroughMalloc
          /\ (last'.ret # NULL /\ last'.elig /\ ~last'.ignore) =>
                EntryHandedOver]_vars

\* The second realloc of a chain has returned a block: it took sequence
\* number 2, the registry's one entry is for that block, and it is the one
\* block allocated.
C27_Witness ==
    /\ last.op = "realloc" /\ last.act /\ ~last.passed
    /\ last.ptr # NULL /\ last.size > 0 /\ last.elig /\ ~last.ignore
    /\ last.ret # NULL /\ last.seq = 2
    /\ RegistryKeys(Cur) = {last.ret}
    /\ g_allocated[last.ret] = Info(2, last.size)
    /\ heap = {last.ret}

\* ------------------------------------------------------------------------
\* Activation of the activated library
\* ------------------------------------------------------------------------
\* The configuration after the step is the one some environment asks for.
ConfigReplaced ==
    \E env \in EnvsStrategies :
        /\ g_strategy' = env.strategy
        /\ env.strategy \in {STRATEGY_STEP, STRATEGY_PULSE} =>
              g_delay' = env.delay
        /\ env.strategy = STRATEGY_PULSE => g_duration' = env.duration
        /\ env.strategy = STRATEGY_RANDOM => g_duty_cycle' = env.duty_cycle

\* activateOverthrower called while activated.
Reactivated ==
    last'.op = "activate" /\ last'.act

\* C28: activateOverthrower called while activated replaces the
\* configuration and puts the sequence counter to 0, and leaves the
\* registry and the blocks as they are; the registry holds the blocks
\* tracked mallocs have returned since the last deactivation, across
\* activations, and deactivateOverthrower returns their number.
C28_ReactivationKeepsRegistry ==
    [][/\ Reactivated =>
             /\ g_activated' /\ ConfigReplaced
             /\ g_malloc_counter' = 0
             /\ g_allocated' = g_allocated /\ heap' = heap
       /\ last'.op = "deactivate" =>
             /\ RegistryKeys(Cur) = tracked
             /\ last'.ret = Cardinality(RegistryKeys(Cur))]_vars

\* deactivateOverthrower has returned 1 with the sequence counter at 0: the
\* block it counted was tracked before the last activateOverthrower, which
\* was called with the counter at 1 and no deactivation since that malloc.
C28_Witness ==
    /\ last.op = "deactivate" /\ last.act /\ last.ret = 1
    /\ since.before = 1 /\ g_malloc_counter = 0
    /\ Cardinality(heap) = 1

\* ------------------------------------------------------------------------
\* The registry out of memory
\* ------------------------------------------------------------------------
\* The malloc that has returned left through the handler of std::bad_alloc.
InsertFailed ==
    last'.op = "malloc" /\ last'.path = "registry_oom"

\* C29: a malloc whose registry insertion fails returns NULL with errno at
\* ENOMEM, the block it had got is released and the registry is as it was
\* before the call; without self-overthrow this is what happens to every
\* malloc that would be registered when the registry cannot get storage.
C29_RegistryOom ==
    [][/\ InsertFailed =>
             /\ last'.ret = NULL
             /\ errno'[last'.t] = ENOMEM
             /\ heap' = heap /\ last'.native \notin heap'
             /\ g_allocated' = g_allocated
       /\ (/\ last'.op = "malloc" /\ Registering
           /\ ~last'.reg_ok /\ ~g_self_overthrow) => InsertFailed]_vars

\* In self-overthrow mode a malloc entered with errno at 100500 got its
\* block, the native allocator having storage for the registry too, and
\* failed to insert: it returned NULL, errno is ENOMEM and the block is not
\* allocated.
C29_Witness ==
    /\ last.op = "malloc" /\ last.path = "registry_oom"
    /\ g_self_overthrow /\ last.reg_ok /\ last.native # NULL
    /\ last.e0 = 100500 /\ errno[last.t] = ENOMEM
    /\ last.ret = NULL /\ last.native \notin heap

\* ------------------------------------------------------------------------
\* The stack walks of a malloc
\* ------------------------------------------------------------------------
\* The pause counters a malloc leaves: those it found, the one at the
\* current depth counted down by one if the malloc was passed through.
PausedAfterMalloc(t) ==
    [g_state[t].paused EXCEPT
        ![g_state[t].depth] = IF @ # 0 THEN @ - 1 ELSE 0]

\* What the walks of a malloc leave, and what the malloc made by the walker
\* was given: the pass-through return, no sequence number, no registry
\* entry, and a block unless self-overthrow made nonFailingMalloc fail.
WalkLeavesState ==
    (last'.op = "malloc" /\ last'.act) =>
        /\ ~g_state'[last'.t].is_tracing
        /\ g_state'[last'.t].depth = g_state[last'.t].depth
        /\ g_state'[last'.t].paused = PausedAfterMalloc(last'.t)
        /\ WalkerPtr \notin heap'
        /\ last'.walk > 0 =>
              /\ last'.inner.path = "paused"
              /\ last'.inner.seq = -1
              /\ last'.inner.kept
              /\ ~g_self_overthrow => last'.inner.ret = WalkerPtr

\* C30: the stack inspection and the trace printing of a malloc leave
\* is_tracing false and the pause counter of the current depth at the value
\* it had before the walk, and a malloc made by the walker is passed
\* through: it is not failed by the strategy, not registered and takes no
\* sequence number.
C30_WalkLeavesState ==
    [][WalkLeavesState]_vars

\* With every trace printed, a malloc made at depth 1 after the pause had
\* run out was tracked with sequence number 0; the walker allocated during
\* its walks, and the pause counter is 0 as before.
C30_Witness ==
    /\ last.op = "malloc" /\ last.act /\ ~last.passed /\ last.elig
    /\ g_verbose_mode = VERBOSE_ALL_ALLOCATIONS
    /\ last.walk > 0 /\ last.inner.ret = WalkerPtr
    /\ g_state[1].depth = 1 /\ g_state[1].paused[1] = 0
    /\ ~g_state[1].is_tracing
    /\ last.seq = 0 /\ last.ret # NULL
    /\ g_allocated[last.ret] = Info(0, last.size)

\* ------------------------------------------------------------------------
\* The traces of the verbose modes
\* ------------------------------------------------------------------------
\* The malloc that has just returned reached the decision point: the shim
\* was activated, no pause passed the call through, its size was not 0 and
\* its call site was not white-listed.  The native allocator had a block
\* and the registry storage for its entry.
Decided ==
    /\ last.op = "malloc" /\ last.act /\ ~last.passed /\ last.elig
    /\ last.native # NULL /\ last.reg_ok

\* The strategy failed it.
Injected ==
    Decided /\ isTimeToFail(Cur, last.seq, 1)

\* The traces OVERTHROWER_VERBOSE is documented to select.
VerboseSelects ==
    Decided =>
        /\ g_verbose_mode = VERBOSE_NO => last.trace = "none"
        /\ g_verbose_mode = VERBOSE_FAILED_ALLOCATIONS =>
              (last.trace # "none" <=> Injected)
        /\ g_verbose_mode = VERBOSE_ALL_ALLOCATIONS => last.trace # "none"

\* C36: with OVERTHROWER_VERBOSE=0 no allocation is traced, with 1 every
\* injected failure and no successful allocation, with 2 every allocation
\* that reaches the decision point, failed or successful.
C36_VerboseSelects ==
    VerboseSelects

\* ------------------------------------------------------------------------
\* Who changes a thread's pause stack
\* ------------------------------------------------------------------------
\* A step that changes the State of thread b is a call of thread b: a
\* pauseOverthrower, a resumeOverthrower, a deactivateOverthrower, or a
\* malloc passed through by the pause, which counts the pause counter of
\* the current depth down by one and leaves everything else.
OwnCallsOnly(b) ==
    g_state'[b] # g_state[b] =>
        /\ last'.t = b
        /\ last'.op \in {"pause", "resume", "deactivate", "malloc"}
        /\ last'.op = "malloc" =>
              /\ last'.act /\ last'.passed
              /\ g_state'[b] = [g_state[b] EXCEPT
                                   !.paused[g_state[b].depth] = @ - 1]

\* C40: a thread's pause depth and pause counters are changed only by that
\* thread's own pauseOverthrower, resumeOverthrower, passed-through malloc
\* and deactivateOverthrower; activateOverthrower on any thread and
\* deactivateOverthrower on another thread leave them, so a pause that was
\* pushed while the shim was inactive, or before another thread's
\* deactivation, still passes the thread's mallocs through in the next
\* activation.
C40_PauseStackOwn ==
    [][/\ \A b \in Threads : OwnCallsOnly(b)
       /\ last'.op = "activate" => g_state' = g_state
       /\ (/\ last'.op = "malloc" /\ last'.act /\ pauses[last'.t] # <<>>
           /\ g_state[last'.t].depth = Len(pauses[last'.t])
           /\ g_state[last'.t].paused[g_state[last'.t].depth] # 0)
             => last'.passed /\ last'.seq = -1 /\ last'.ret = last'.native]_vars

\* Thread 1 has activated the shim, which was inactive, and both threads
\* are within the indefinite pauses they had pushed before: the pauses
\* were pushed while the shim was inactive or before the other thread
\* deactivated it.
C40_Witness ==
    /\ last.op = "activate" /\ last.t = 1 /\ ~last.act /\ g_activated
    /\ \A b \in Threads :
          /\ g_state[b].depth = 1
          /\ g_state[b].paused[1] = UINT_MAX
          /\ pauses[b] # <<>>

\* ------------------------------------------------------------------------
\* The sequence numbers of concurrent mallocs
\* ------------------------------------------------------------------------
\* Thread t fetches its sequence number in this step.
NumberTaken(t) ==
    frame[t] = NoFrame /\ frame'[t] # NoFrame

C33_NoNativeCallUnderMutex ==
    \A t \in Threads : InNative(t) => ~Holds(t)

\* C34: every access to the registry is made holding g_mutex: in no state
\* is one thread within a member function of g_allocated while another
\* thread is within one that changes it.
C34_RegistryUnderMutex ==
    \A t \in Threads : \A b \in Threads \ {t} :
        ~(Accessing(t) /\ Modifying(b))

\* No call is in flight.
Quiescent ==
    \A t \in Threads : frame[t] = NoFrame

\* C32: with no call in flight, the keys of the registry are the blocks
\* that tracked mallocs have returned since the last deactivation and that
\* have not been freed or replaced by realloc, and every one of them is
\* allocated.
C32_RegistryIsLiveTracked ==
    Quiescent => RegistryKeys(Cur) = tracked /\ tracked \subseteq heap

C38_EmptyUntilActivated ==
    ~g_activated => RegistryKeys(Cur) = {}

\* ------------------------------------------------------------------------
\* The first calls of the process
\* ------------------------------------------------------------------------
\* C39: initialize is entered only while g_initialized is false, so that
\* its assertion holds on every entry, also when two threads make their
\* first malloc at the same time.
C39_InitializedOnce ==
    \A t \in Threads : frame[t].pc \notin {"again", "aborted"}

\* C37: no call of malloc, free or realloc comes to a call through
\* native_malloc, native_realloc or native_free while that pointer is
\* null, whatever the first calls of the process are.
C37_NoNullNativeCall ==
    \A t \in Threads : frame[t].pc # "null_call"

====
